---------------------------- MODULE Spec2Model ----------------------------
(***************************************************************************)
(* State-machine model of the DART wizard (src/src/main): the application  *)
(* shell of main.py, the seven pages of pages.py and the Slide / Target    *)
(* bookkeeping of images.py.                                               *)
(*                                                                         *)
(* Every Tk callback is one action.  A callback is modelled as a function  *)
(* from the program state (a record with one field per variable) to the    *)
(* state it leaves behind; the field exc holds the kind of the exception   *)
(* that escaped the callback ("none" when it returned).  Tk reports such   *)
(* an exception and keeps the event loop running, so the state the         *)
(* callback had reached when it raised is the state the program goes on    *)
(* with.                                                                   *)
(***************************************************************************)
EXTENDS Integers, Sequences, FiniteSets, Bags, TLC

\* ---------------------------------------------------------------- bounds
\* most slides the project may hold (image files found in sample folders)
MaxSlides == 2
\* most targets per slide
MaxTargets == 1
\* on_click connections counted exactly up to here; the value stands for
\* "this many or more"
MaxHandlers == 2
\* most slides, and the largest x and y pixel coordinate of a click, on
\* the SlideProcessor page in the annotation specification
MaxCalSlides == 1
MaxX == 2
MaxY == 1
\* most slides / targets per slide of the Exporter specification
MaxExportSlides == 2
MaxExportTargets == 2
\* most export files per slide and Exporter activations
MaxOutputs == 2
\* polygon hulls RegionPicker.done finds on one target
MaxShapes == 2
\* landmark pairs committed on one target
MaxLandmarks == 2
\* targets of the slide of the pose session
MaxPoseTargets == 2
\* longest axis of an image handed to Image.load_img, and largest pix_dim
\* entry handed to set_pix_dim
MaxAxis == 5
MaxSpacing == 2
\* most pixels of a target crop handed to Target.load_img
MaxPixels == 3
\* most voxels of an atlas volume
MaxVoxels == 2

\* ------------------------------------------------------ program constants
\* len(self.pages) - 1 : index of the Exporter page
LastPage == 6
\* self.project['stalign_iterations'] : set at construction, never changed
stalign_iterations == 0
\* export status values of Exporter.exported
NOT_EXPORTED == 1
EXPORTED == 2

PageIndices == 0..LastPage
\* the placeholder of the atlas combobox
ChooseAtlas == "Choose Atlas"
\* values of the sample-folder entry: empty, a path that does not exist,
\* a folder that exists
FolderNames == {"", "missing", "samples"}
NoPoint == <<-1, -1>>
NoTarget == [x |-> -1, y |-> -1, w |-> 0, h |-> 0, set |-> FALSE]
\* TargetProcessor.new_points = [[],[]] : no pending point in either pane
NoNewPoints == << << >>, << >> >>
\* no export file has been written
NoFile == [slide |-> 0, number |-> 0, ShapeCount |-> 0, shapes |-> << >>]

VARIABLES
    \* App
    page_index, prev_btn, next_btn, page_label, destroyed, packed,
    \* project
    slides, folder, atlas_loaded, target_folders,
    \* the files SlideProcessor.done wrote into the project folder
    project_files,
    \* constants.py : the dict DEFAULT_STALIGN_PARAMS, values in halves
    DEFAULT_STALIGN_PARAMS,
    \* the image files os.listdir found in the sample folder, the atlases of
    \* the project, and an Image or Target object of images.py
    image_files, atlases, image,
    \* Starter
    atlas_name, slides_folder_name,
    \* SlideProcessor
    sp_curr_slide_var, annotation_mode, newPoint, newTarget,
    sp_remove_btn, sp_commit_btn, click_event, click_handlers,
    slice_selector_active,
    \* TargetProcessor
    tp_curr_slide_var, tp_curr_target_var,
    new_points, tp_remove_btn, tp_commit_btn, tp_clear_btn,
    \* STalignRunner
    run_active, run_sn, run_tn, run_orphan, start_btn_packed,
    \* VisuAlignRunner
    va_project_folder, va_manifest, va_labels, click_me,
    \* RegionPicker
    region_tree_built,
    \* Exporter
    exported, numOutputs, ex_curr_slide_var, toggle_all_btn, export_btn,
    output_file,
    \* the callback Tk ran last and the exception that escaped it
    callback, exc

vars == << page_index, prev_btn, next_btn, page_label, destroyed, packed,
           slides, folder, atlas_loaded, target_folders, project_files,
           DEFAULT_STALIGN_PARAMS,
           image_files, atlases, image,
           atlas_name, slides_folder_name,
           sp_curr_slide_var, annotation_mode, newPoint, newTarget,
           sp_remove_btn, sp_commit_btn, click_event, click_handlers,
           slice_selector_active,
           tp_curr_slide_var, tp_curr_target_var,
           new_points, tp_remove_btn, tp_commit_btn, tp_clear_btn,
           run_active, run_sn, run_tn, run_orphan, start_btn_packed,
           va_project_folder, va_manifest, va_labels, click_me,
           region_tree_built,
           exported, numOutputs, ex_curr_slide_var, toggle_all_btn, export_btn,
           output_file,
           callback, exc >>

\* the program state as one record
St ==
    [ page_index |-> page_index, prev_btn |-> prev_btn, next_btn |-> next_btn,
      page_label |-> page_label, destroyed |-> destroyed, packed |-> packed,
      slides |-> slides, folder |-> folder, atlas_loaded |-> atlas_loaded,
      target_folders |-> target_folders, project_files |-> project_files,
      DEFAULT_STALIGN_PARAMS |-> DEFAULT_STALIGN_PARAMS,
      image_files |-> image_files, atlases |-> atlases, image |-> image,
      atlas_name |-> atlas_name, slides_folder_name |-> slides_folder_name,
      sp_curr_slide_var |-> sp_curr_slide_var,
      annotation_mode |-> annotation_mode,
      newPoint |-> newPoint, newTarget |-> newTarget,
      sp_remove_btn |-> sp_remove_btn, sp_commit_btn |-> sp_commit_btn,
      click_event |-> click_event, click_handlers |-> click_handlers,
      slice_selector_active |-> slice_selector_active,
      tp_curr_slide_var |-> tp_curr_slide_var,
      tp_curr_target_var |-> tp_curr_target_var,
      new_points |-> new_points, tp_remove_btn |-> tp_remove_btn,
      tp_commit_btn |-> tp_commit_btn, tp_clear_btn |-> tp_clear_btn,
      run_active |-> run_active, run_sn |-> run_sn, run_tn |-> run_tn,
      run_orphan |-> run_orphan,
      start_btn_packed |-> start_btn_packed,
      va_project_folder |-> va_project_folder, va_manifest |-> va_manifest,
      va_labels |-> va_labels, click_me |-> click_me,
      region_tree_built |-> region_tree_built,
      exported |-> exported, numOutputs |-> numOutputs,
      ex_curr_slide_var |-> ex_curr_slide_var,
      toggle_all_btn |-> toggle_all_btn, export_btn |-> export_btn,
      output_file |-> output_file,
      callback |-> callback, exc |-> exc ]

\* the next state is the record t
Becomes(t) ==
    /\ page_index' = t.page_index /\ prev_btn' = t.prev_btn
    /\ next_btn' = t.next_btn /\ page_label' = t.page_label
    /\ destroyed' = t.destroyed /\ packed' = t.packed
    /\ slides' = t.slides /\ folder' = t.folder
    /\ atlas_loaded' = t.atlas_loaded /\ target_folders' = t.target_folders
    /\ project_files' = t.project_files
    /\ DEFAULT_STALIGN_PARAMS' = t.DEFAULT_STALIGN_PARAMS
    /\ image_files' = t.image_files /\ atlases' = t.atlases
    /\ image' = t.image
    /\ atlas_name' = t.atlas_name
    /\ slides_folder_name' = t.slides_folder_name
    /\ sp_curr_slide_var' = t.sp_curr_slide_var
    /\ annotation_mode' = t.annotation_mode
    /\ newPoint' = t.newPoint /\ newTarget' = t.newTarget
    /\ sp_remove_btn' = t.sp_remove_btn /\ sp_commit_btn' = t.sp_commit_btn
    /\ click_event' = t.click_event /\ click_handlers' = t.click_handlers
    /\ slice_selector_active' = t.slice_selector_active
    /\ tp_curr_slide_var' = t.tp_curr_slide_var
    /\ tp_curr_target_var' = t.tp_curr_target_var
    /\ new_points' = t.new_points /\ tp_remove_btn' = t.tp_remove_btn
    /\ tp_commit_btn' = t.tp_commit_btn /\ tp_clear_btn' = t.tp_clear_btn
    /\ run_active' = t.run_active /\ run_sn' = t.run_sn /\ run_tn' = t.run_tn
    /\ run_orphan' = t.run_orphan
    /\ start_btn_packed' = t.start_btn_packed
    /\ va_project_folder' = t.va_project_folder
    /\ va_manifest' = t.va_manifest /\ va_labels' = t.va_labels
    /\ click_me' = t.click_me
    /\ region_tree_built' = t.region_tree_built
    /\ exported' = t.exported /\ numOutputs' = t.numOutputs
    /\ ex_curr_slide_var' = t.ex_curr_slide_var
    /\ toggle_all_btn' = t.toggle_all_btn /\ export_btn' = t.export_btn
    /\ output_file' = t.output_file
    /\ callback' = t.callback /\ exc' = t.exc

\* Tk runs callback cb, whose body takes the state s to the state t
Handle(cb, t) == Becomes([t EXCEPT !.callback = cb])

\* the state a callback starts from
Enter(s) == [s EXCEPT !.exc = "none"]

\* the exception `kind` escapes from state s
Raise(s, kind) == [s EXCEPT !.exc = kind]

Raised(s) == s.exc # "none"

\* ------------------------------------------------------------ images.py
\* Image.__init__ (and Atlas.__init__, which adds nothing)
Image ==
    [ img |-> [shape |-> << >>, data |-> << >>],
      img_original |-> [shape |-> << >>, data |-> << >>],
      shape |-> << >>, loaded |-> FALSE,
      pix_dim |-> << >>, has_pix_dim |-> FALSE,
      pix_loc |-> << >>, has_pix_loc |-> FALSE ]

\* Target.__init__ : a crop at (x, y) of w by h pixels, not yet registered.
\* The pose is the angles thetas and the translation T_estim (z, y, x); the
\* values of the STalign parameters are counted in halves, so that 0.5 is
\* 1 and 12 is 24; img_estim is the reslice of the atlas at the pose.
Target(x, y, w, h) ==
    [ x_offset |-> x, y_offset |-> y, w |-> w, h |-> h,
      thetas |-> <<0, 0, 0>>, T_estim |-> <<0, 0, 0>>,
      stalign_params |->
         [timesteps |-> 24, iterations |-> 200, sigmaM |-> 1, sigmaP |-> 2,
          sigmaR |-> 200000000, resolution |-> 500],
      img_estim |-> Image,
      landmarks |-> [target |-> << >>, atlas |-> << >>], num_landmarks |-> 0,
      transform |-> FALSE, seg_stalign |-> FALSE, seg_visualign |-> "None",
      region_boundaries |-> << >> ]

\* Slide.__init__
Slide ==
    [ targets |-> << >>, numTargets |-> 0,
      calibration_points |-> << >>, numCalibrationPoints |-> 0 ]

\* list.pop(index) for a Python index (negative counts from the end);
\* the position popped, 0 when the index is out of range (IndexError)
PopPosition(seq, index) ==
    LET pos == IF index < 0 THEN Len(seq) + index + 1 ELSE index + 1
    IN  IF pos \in 1..Len(seq) THEN pos ELSE 0

RemoveAt(seq, pos) ==
    [ i \in 1..(Len(seq) - 1) |-> IF i < pos THEN seq[i] ELSE seq[i + 1] ]

\* Slide.add_target
add_target(slide, x, y, w, h) ==
    [ slide EXCEPT !.targets = Append(@, Target(x, y, w, h)),
                   !.numTargets = @ + 1 ]

\* Slide.remove_target : ok is FALSE when pop raised IndexError
remove_target(slide, index) ==
    LET pos == PopPosition(slide.targets, index)
    IN  IF pos = 0
        THEN [ ok |-> FALSE, slide |-> slide ]
        ELSE [ ok |-> TRUE,
               slide |-> [ slide EXCEPT !.targets = RemoveAt(@, pos),
                                        !.numTargets = @ - 1 ] ]

\* a slip the calibration claims must notice : the cap of three is missing
add_calibration_point_uncapped(slide, point) ==
    [ ok |-> TRUE,
      slide |-> [ slide EXCEPT !.calibration_points = Append(@, point),
                               !.numCalibrationPoints = @ + 1 ] ]

\* Slide.add_calibration_point : ok is FALSE when it raised
add_calibration_point(slide, point) ==
    IF slide.numCalibrationPoints < 3
    THEN [ ok |-> TRUE,
           slide |-> [ slide EXCEPT
                         !.calibration_points = Append(@, point),
                         !.numCalibrationPoints = @ + 1 ] ]
    ELSE [ ok |-> FALSE, slide |-> slide ]

\* Slide.remove_calibration_point : ok is FALSE when it raised (no point
\* to remove, or pop raised IndexError)
remove_calibration_point(slide, index) ==
    IF slide.numCalibrationPoints > 0
    THEN LET pos == PopPosition(slide.calibration_points, index)
         IN  IF pos = 0
             THEN [ ok |-> FALSE, slide |-> slide ]
             ELSE [ ok |-> TRUE,
                    slide |-> [ slide EXCEPT
                                  !.calibration_points = RemoveAt(@, pos),
                                  !.numCalibrationPoints = @ - 1 ] ]
    ELSE [ ok |-> FALSE, slide |-> slide ]


\* ------------------------------------------------------------- Page base
\* Page.activate, first half : self.pack(...)
pack(s, page) == [s EXCEPT !.packed = @ \cup {page}]

\* Page.deactivate : self.pack_forget()
pack_forget(s, page) == [s EXCEPT !.packed = @ \ {page}]

\* ------------------------------------------------- images.py, landmarks
\* Target.add_landmarks
add_landmarks(target, target_point, atlas_point) ==
    [ target EXCEPT !.landmarks.target = Append(@, target_point),
                    !.landmarks.atlas = Append(@, atlas_point),
                    !.num_landmarks = @ + 1 ]

\* Target.remove_landmarks : nothing happens without a landmark; pop(-1)
\* of an empty list would raise IndexError
remove_landmarks(target) ==
    IF target.num_landmarks > 0
    THEN IF target.landmarks.target = << >> \/ target.landmarks.atlas = << >>
         THEN [ ok |-> FALSE, target |-> target ]
         ELSE [ ok |-> TRUE,
                target |-> [ target EXCEPT
                    !.landmarks.target = SubSeq(@, 1, Len(@) - 1),
                    !.landmarks.atlas = SubSeq(@, 1, Len(@) - 1),
                    !.num_landmarks = @ - 1 ] ]
    ELSE [ ok |-> TRUE, target |-> target ]

\* a slip the parameter claim must notice : the value is written into the
\* module defaults as well
set_param_shared(target, defaults, key, val) ==
    IF key = "None" /\ val = << >>
    THEN [ target |-> [target EXCEPT !.stalign_params = defaults],
           defaults |-> defaults ]
    ELSE IF key \in DOMAIN target.stalign_params
    THEN [ target |-> [target EXCEPT !.stalign_params[key] = val[1]],
           defaults |-> [defaults EXCEPT ![key] = val[1]] ]
    ELSE [ target |-> target, defaults |-> defaults ]

\* Target.set_param(key, val) on a target, with the module defaults before
\* and after the call.  key is "None" and val is << >> when the argument is
\* left out; a value given is << v >>, a number as save_params passes it.
set_param(target, defaults, key, val) ==
    IF key = "None" /\ val = << >>
    THEN [ target |-> [target EXCEPT !.stalign_params = defaults],
           defaults |-> defaults ]
    ELSE IF key \in DOMAIN target.stalign_params
    THEN [ target |-> [target EXCEPT !.stalign_params[key] = val[1]],
           defaults |-> defaults ]
    ELSE [ target |-> target, defaults |-> defaults ]

\* --------------------------------------------------- images.py, the images
\* An array is its shape and its elements by index tuple.  The intensities
\* of a target image are counted in tenths of the full intensity, so that
\* 0.1, 0.9 and 1 are 1, 9 and 10; a voxel of an atlas volume is the
\* fraction num/den; the coordinates of pix_loc are counted in halves of
\* the unit of pix_dim.  An attribute that is None has its flag FALSE.

\* Image.load_img
Image_load_img(im, arr) ==
    [im EXCEPT !.img = arr, !.shape = arr.shape, !.loaded = TRUE]

\* Image.set_pix_dim : len(self.shape) of an image without data raises
\* TypeError
set_pix_dim(im, pix_dim) ==
    IF ~im.loaded THEN [exc |-> "TypeError", image |-> im]
    ELSE IF Len(pix_dim) # Len(im.shape)
    THEN [exc |-> "Exception", image |-> im]
    ELSE [exc |-> "none",
          image |-> [im EXCEPT !.pix_dim = pix_dim, !.has_pix_dim = TRUE]]

\* a slip the coordinate claim must notice : the coordinates start at zero
\* (defined ahead of set_pix_loc, which the inversion slip below uses)
set_pix_loc_uncentred(im) ==
    IF ~im.has_pix_dim THEN [exc |-> "Exception", image |-> im]
    ELSE [exc |-> "none",
          image |-> [im EXCEPT
             !.pix_loc = [k \in 1..Len(im.shape) |->
                            [i \in 1..im.shape[k] |->
                               2 * (i - 1) * im.pix_dim[k]]],
             !.has_pix_loc = TRUE]]

\* Image.set_pix_loc : np.arange(n)*d - (n-1)*d/2.0 for n, d in
\* zip(shape, pix_dim), in halves
set_pix_loc(im) ==
    IF ~im.has_pix_dim THEN [exc |-> "Exception", image |-> im]
    ELSE IF ~im.loaded THEN [exc |-> "TypeError", image |-> im]
    ELSE LET axes == IF Len(im.shape) < Len(im.pix_dim)
                     THEN 1..Len(im.shape) ELSE 1..Len(im.pix_dim)
         IN  [exc |-> "none",
              image |-> [im EXCEPT
                 !.pix_loc = [k \in axes |->
                                [i \in 1..im.shape[k] |->
                                   2 * (i - 1) * im.pix_dim[k]
                                     - (im.shape[k] - 1) * im.pix_dim[k]]],
                 !.has_pix_loc = TRUE]]

\* a slip the inversion claim must notice : equal counts invert as well
Target_load_img_on_tie(im, raw, pix_dim, has_pix_dim) ==
    LET bright == Cardinality({ix \in DOMAIN raw.data : raw.data[ix] >= 9})
        dark == Cardinality({ix \in DOMAIN raw.data : raw.data[ix] <= 1})
        img == IF bright >= dark
               THEN [raw EXCEPT !.data =
                       [ix \in DOMAIN raw.data |-> 10 - raw.data[ix]]]
               ELSE raw
        t == [im EXCEPT !.img_original = raw, !.img = img,
                        !.pix_dim = pix_dim, !.has_pix_dim = has_pix_dim,
                        !.shape = img.shape, !.loaded = TRUE]
    IN  IF has_pix_dim THEN set_pix_loc(t) ELSE [exc |-> "none", image |-> t]

\* Target.load_img of a two-dimensional grey image with ds_factor 1 : the
\* image is kept as img_original, inverted when more pixels are at 0.9 or
\* above than at 0.1 or below, and pix_loc is set when pix_dim is given
Target_load_img(im, raw, pix_dim, has_pix_dim) ==
    LET bright == Cardinality({ix \in DOMAIN raw.data : raw.data[ix] >= 9})
        dark == Cardinality({ix \in DOMAIN raw.data : raw.data[ix] <= 1})
        img == IF bright > dark
               THEN [raw EXCEPT !.data =
                       [ix \in DOMAIN raw.data |-> 10 - raw.data[ix]]]
               ELSE raw
        t == [im EXCEPT !.img_original = raw, !.img = img,
                        !.pix_dim = pix_dim, !.has_pix_dim = has_pix_dim,
                        !.shape = img.shape, !.loaded = TRUE]
    IN  IF has_pix_dim THEN set_pix_loc(t) ELSE [exc |-> "none", image |-> t]

\* skimage.transform.downscale_local_mean of a volume : the volume is
\* padded with zeros to whole blocks of f[1] x f[2] x f[3] voxels and
\* every block becomes its mean
downscale_local_mean(arr, f) ==
    LET o == [k \in 1..3 |-> (arr.shape[k] + f[k] - 1) \div f[k]]
        D == arr.data[<<1, 1, 1>>].den
        block(ix) == {c \in DOMAIN arr.data :
                        \A k \in 1..3 : (c[k] - 1) \div f[k] + 1 = ix[k]}
        sum(ix) == BagCardinality(
                     [c \in {b \in block(ix) : arr.data[b].num > 0} |->
                        arr.data[c].num])
    IN  [ shape |-> o,
          data |-> [ix \in (1..o[1]) \X (1..o[2]) \X (1..o[3]) |->
                      [num |-> sum(ix), den |-> D * f[1] * f[2] * f[3]]] ]

\* Atlas.load_img of a volume of non-negative voxels with its spacing :
\* downscaled, then (normalize) shifted and divided by the span of its
\* values, which is zero for a uniform volume
Atlas_load_img(im, img, pix_dim, ds_factor, normalize) ==
    LET ds == downscale_local_mean(img, ds_factor)
        nums == {ds.data[ix].num : ix \in DOMAIN ds.data}
        lo == CHOOSE n \in nums : \A m \in nums : n <= m
        hi == CHOOSE n \in nums : \A m \in nums : m <= n
        out == IF normalize
               THEN [ds EXCEPT !.data =
                       [ix \in DOMAIN ds.data |->
                          [num |-> ds.data[ix].num - lo, den |-> hi - lo]]]
               ELSE ds
    IN  set_pix_loc(
          [im EXCEPT !.img = out, !.shape = ds.shape, !.loaded = TRUE,
                     !.pix_dim = [k \in 1..Len(pix_dim) |->
                                    ds_factor[k] * pix_dim[k]],
                     !.has_pix_dim = TRUE]).image

\* --------------------------------------------------------------- Starter
\* a slip the downscale claim must notice : the quotient is rounded up
downscale_factor_rounded_up(pix_dim) ==
    [k \in DOMAIN pix_dim |->
       IF 50 > pix_dim[k] THEN (50 + pix_dim[k] - 1) \div pix_dim[k] ELSE 1]

\* Starter.load_atlas_info : int(max(1, 50/dim)) for dim in pix_dim_full,
\* for positive dim
downscale_factor(pix_dim) ==
    [k \in DOMAIN pix_dim |->
       IF 50 > pix_dim[k] THEN 50 \div pix_dim[k] ELSE 1]

\* Starter.load_atlas_info : the reference and the label volume are loaded
\* at full size and downscaled; ref and lab are the volumes of the two
\* files, pix_dim their spacing
load_atlas_info(s, ref, lab, pix_dim) ==
    LET FSR == Atlas_load_img(s.atlases.FSR, ref, pix_dim, <<1, 1, 1>>, TRUE)
        FSL == Atlas_load_img(s.atlases.FSL, lab, pix_dim, <<1, 1, 1>>, FALSE)
        f == downscale_factor(FSR.pix_dim)
    IN  [s EXCEPT !.atlases =
           [ FSR |-> FSR, FSL |-> FSL,
             DSR |-> Atlas_load_img(s.atlases.DSR, FSR.img, FSR.pix_dim, f,
                                    TRUE),
             DSL |-> Atlas_load_img(s.atlases.DSL, FSL.img, FSL.pix_dim, f,
                                    FALSE) ]]

\* Starter.load_slides : one Slide appended per image file of the folder
load_slides(s, nImages) ==
    [s EXCEPT !.slides = @ \o [i \in 1..nImages |-> Slide],
              !.image_files = nImages]

\* a slip the Starter claim must notice : no input is validated
Starter_done_unchecked(s, atlasOK, nImages, mkdirOK) ==
    IF ~atlasOK THEN Raise(s, "AtlasLoadFailed")
    ELSE IF ~mkdirOK THEN Raise(s, "OSError")
    ELSE pack_forget(
           [load_slides(s, nImages) EXCEPT !.atlas_loaded = TRUE,
                                           !.folder = TRUE,
                                           !.target_folders = {},
                                           !.project_files =
                                              [target_coordinates |-> FALSE,
                                               calibration_points |-> FALSE,
                                               images |-> {}]],
           0)

\* Starter.done.  atlasOK : load_atlas_info finds and decodes the atlas
\* files; nImages : image files in the sample folder; mkdirOK : os.mkdir of
\* the timestamped project folder succeeds.
Starter_done(s, atlasOK, nImages, mkdirOK) ==
    IF s.atlas_name = ChooseAtlas
    THEN Raise(s, "MissingSelection")
    ELSE IF s.slides_folder_name = ""
    THEN Raise(s, "MissingSelection")
    ELSE IF ~atlasOK
    THEN Raise(s, "AtlasLoadFailed")
    ELSE LET s1 == [s EXCEPT !.atlas_loaded = TRUE]
         IN  IF s1.slides_folder_name # "samples"
             THEN Raise(s1, "NotFound")
             ELSE LET s2 == load_slides(s1, nImages)
                  IN  IF ~mkdirOK
                      THEN Raise(s2, "OSError")
                      ELSE pack_forget(
                             [s2 EXCEPT !.folder = TRUE,
                                        !.target_folders = {},
                                        !.project_files =
                                           [target_coordinates |-> FALSE,
                                            calibration_points |-> FALSE,
                                            images |-> {}]],
                             0)

\* Starter.cancel
Starter_cancel(s) == pack_forget(s, 0)

\* Starter.activate (Page.activate; show_widgets only grids the widgets)
Starter_activate(s) == pack(s, 0)

\* -------------------------------------------------------- SlideProcessor
\* SlideProcessor.update_buttons
sp_update_buttons(s) ==
    LET slide == s.slides[s.sp_curr_slide_var]
        canRemove == IF s.annotation_mode = "rect"
                     THEN slide.numTargets > 0
                     ELSE slide.numCalibrationPoints > 0
        canAdd == IF s.annotation_mode = "rect"
                  THEN s.newTarget.set
                  ELSE s.newPoint # NoPoint
    IN  [s EXCEPT
           !.sp_remove_btn = IF canRemove THEN "active" ELSE "disabled",
           !.sp_commit_btn = IF canAdd THEN "active" ELSE "disabled"]

\* SlideProcessor.clear : the pending target and point are dropped
sp_clear(s) == [s EXCEPT !.newTarget = NoTarget, !.newPoint = NoPoint]

\* SlideProcessor.refresh : self.slides[self.get_index()] raises IndexError
\* when the selected slide number exceeds the number of slides
sp_refresh(s) ==
    IF s.sp_curr_slide_var \notin 1..Len(s.slides)
    THEN Raise(s, "IndexError")
    ELSE sp_update_buttons(sp_clear(s))

\* one more on_click connection, counted up to MaxHandlers
MoreHandlers(n) == IF n < MaxHandlers THEN n + 1 ELSE n

\* SlideProcessor.activate_point_mode : mpl_connect adds a connection and
\* self.click_event names it
activate_point_mode(s) ==
    sp_update_buttons(
      [sp_clear(s) EXCEPT !.slice_selector_active = FALSE,
                          !.click_handlers = MoreHandlers(@),
                          !.click_event = TRUE])

\* SlideProcessor.activate_rect_mode : mpl_disconnect removes the
\* connection self.click_event names, if it is still connected
activate_rect_mode(s) ==
    sp_update_buttons(
      [sp_clear(s) EXCEPT
         !.slice_selector_active = TRUE,
         !.click_handlers = IF s.click_event /\ @ < MaxHandlers
                            THEN @ - 1 ELSE @,
         !.click_event = FALSE])

\* SlideProcessor.activate
SlideProcessor_activate(s) ==
    LET r == sp_refresh(s)
    IN  IF Raised(r) THEN r
        ELSE IF r.annotation_mode = "point"
        THEN pack(activate_point_mode(r), 1)
        ELSE pack(activate_rect_mode(r), 1)

\* SlideProcessor.on_select : the rectangle dragged from (x, y) over w by h
\* pixels becomes the pending target; a drag that ends where it began
\* clears it
sp_on_select(s, x, y, w, h) ==
    sp_update_buttons(
      IF w = 0 /\ h = 0
      THEN [s EXCEPT !.newTarget = NoTarget]
      ELSE [s EXCEPT !.newTarget =
              [x |-> x, y |-> y, w |-> w, h |-> h, set |-> TRUE]])

\* SlideProcessor.on_click with the left button inside the axes
sp_on_click(s, point) == sp_update_buttons([s EXCEPT !.newPoint = point])

\* the target a suspended STalignRunner.run holds leaves the project when
\* it is the last target of slide i and that target is popped
orphan_target(s, i) ==
    IF s.run_active /\ s.run_orphan = "none" /\ s.run_sn = i
       /\ s.run_tn = Len(s.slides[i].targets)
    THEN "target" ELSE s.run_orphan

\* SlideProcessor.remove : update_buttons is named but not called
sp_remove(s) ==
    LET i == s.sp_curr_slide_var
    IN  IF s.annotation_mode = "rect"
        THEN LET r == remove_target(s.slides[i], -1)
             IN  IF r.ok
                 THEN [s EXCEPT !.slides[i] = r.slide,
                                !.run_orphan = orphan_target(s, i)]
                 ELSE Raise(s, "IndexError")
        ELSE LET r == remove_calibration_point(s.slides[i], -1)
             IN  IF r.ok THEN [s EXCEPT !.slides[i] = r.slide]
                 ELSE Raise(s, "EmptyCollection")

\* SlideProcessor.commit
sp_commit(s) ==
    LET i == s.sp_curr_slide_var
    IN  IF s.annotation_mode = "rect"
        THEN IF ~s.newTarget.set THEN s
             ELSE sp_update_buttons(
                    [s EXCEPT
                       !.slides[i] = add_target(@, s.newTarget.x,
                                       s.newTarget.y, s.newTarget.w,
                                       s.newTarget.h),
                       !.newTarget = NoTarget])
        ELSE LET r == add_calibration_point(s.slides[i], s.newPoint)
             IN  IF r.ok
                 THEN sp_update_buttons(
                        [s EXCEPT !.slides[i] = r.slide,
                                  !.newPoint = NoPoint])
                 ELSE Raise(s, "CapacityExceeded")

\* Python's order on [x, y] lists
LexLess(p, q) == p[1] < q[1] \/ (p[1] = q[1] /\ p[2] < q[2])

\* x put into the sorted seq behind every element that is not greater
\* (the place a stable sort gives it)
RECURSIVE InsertLex(_, _)
InsertLex(x, seq) ==
    IF seq = << >> THEN << x >>
    ELSE IF LexLess(x, Head(seq)) THEN << x >> \o seq
    ELSE << Head(seq) >> \o InsertLex(x, Tail(seq))

\* list.sort() on a list of [x, y] points
RECURSIVE sort_points(_)
sort_points(seq) ==
    IF seq = << >> THEN << >>
    ELSE InsertLex(seq[Len(seq)], sort_points(SubSeq(seq, 1, Len(seq) - 1)))

RECURSIVE InsertByY(_, _)
InsertByY(x, seq) ==
    IF seq = << >> THEN << x >>
    ELSE IF x[2] < Head(seq)[2] THEN << x >> \o seq
    ELSE << Head(seq) >> \o InsertByY(x, Tail(seq))

\* sorted(points, key=lambda point: point[1]) : stable, by y alone
RECURSIVE sorted_by_y(_)
sorted_by_y(seq) ==
    IF seq = << >> THEN << >>
    ELSE InsertByY(seq[Len(seq)], sorted_by_y(SubSeq(seq, 1, Len(seq) - 1)))

\* a slip the ordering claim must notice : the second sort is missing
lexicographic_order_only(points) == sort_points(points)

\* the reordering of SlideProcessor.done : sort, then the points after the
\* first sorted by y
reorder_calibration_points(points) ==
    LET sorted == sort_points(points)
    IN  IF sorted = << >> THEN << >>
        ELSE << sorted[1] >> \o sorted_by_y(Tail(sorted))

\* a slip the gating claim must notice : the calibration points are not
\* counted
SlideInvalid_targets_only(slide) == slide.numTargets < 1

\* the check of one slide in SlideProcessor.done
SlideInvalid(slide) ==
    slide.numTargets < 1 \/ slide.numCalibrationPoints # 3

\* a slip the project invariant must notice : only slide i is checked
sp_validate_one_slide(s, i) ==
    IF i > Len(s.slides) THEN s
    ELSE IF SlideInvalid(s.slides[i])
    THEN Raise(sp_refresh([s EXCEPT !.sp_curr_slide_var = i]),
               "ValidationFailed")
    ELSE s

\* a slip the failure claim must notice : the failing slide is not selected
\* and the pending item stays
sp_validate_no_jump(s, i) ==
    IF \E k \in i..Len(s.slides) : SlideInvalid(s.slides[k])
    THEN Raise(s, "ValidationFailed")
    ELSE s

\* SlideProcessor.done, the loop over the slides from slide i on: a slide
\* with three points has them reordered, also when it has no target; the
\* first invalid slide is selected and shown and the exception is raised
RECURSIVE sp_validate(_, _)
sp_validate(s, i) ==
    IF i > Len(s.slides) THEN s
    ELSE LET slide == s.slides[i]
             s1 == IF slide.numCalibrationPoints # 3 THEN s
                   ELSE [s EXCEPT !.slides[i].calibration_points =
                           reorder_calibration_points(@)]
         IN  IF SlideInvalid(slide)
             THEN Raise(sp_refresh([s1 EXCEPT !.sp_curr_slide_var = i]),
                        "ValidationFailed")
             ELSE sp_validate(s1, i + 1)

\* the (slide, target) numbers in the order of
\* "for slide in self.slides: for target in slide.targets", from (si, ti) on
RECURSIVE TargetsFrom(_, _, _)
TargetsFrom(sl, si, ti) ==
    IF si > Len(sl) THEN << >>
    ELSE IF ti > Len(sl[si].targets) THEN TargetsFrom(sl, si + 1, 1)
    ELSE << <<si, ti>> >> \o TargetsFrom(sl, si, ti + 1)

AllTargets(sl) == TargetsFrom(sl, 1, 1)

\* the per-target identifier and folder name : one name per slide number,
\* target number (and run counter)
get_filename(si, ti) == <<si, ti>>

get_folder(si, ti, iterations) == <<si, ti, iterations>>

\* a slip the one-page claim must notice : the page is not hidden
SlideProcessor_done_stays_shown(s) == sp_validate(s, 1)

\* SlideProcessor.done : after the loop the manifests and the target images
\* are written and the page is hidden
SlideProcessor_done(s) ==
    LET r == sp_validate(s, 1)
    IN  IF Raised(r) THEN r
        ELSE pack_forget(
               [r EXCEPT !.project_files =
                  [target_coordinates |-> TRUE, calibration_points |-> TRUE,
                   images |-> @.images \cup
                      {get_filename(AllTargets(r.slides)[k][1],
                                    AllTargets(r.slides)[k][2]) :
                         k \in 1..Len(AllTargets(r.slides))}]], 1)

\* SlideProcessor.cancel : self.slides.clear()
SlideProcessor_cancel(s) ==
    pack_forget(
      [s EXCEPT !.slides = << >>,
                !.run_orphan = IF s.run_active THEN "slide" ELSE @], 1)

\* ------------------------------------------------------- TargetProcessor
\* self.currTarget of the TargetProcessor page
tp_currTarget(s) == s.slides[s.tp_curr_slide_var].targets[s.tp_curr_target_var]

\* TargetProcessor.update_buttons
tp_update_buttons(s) ==
    LET canRemove == tp_currTarget(s).num_landmarks > 0
        canAdd == Len(s.new_points[1]) = 2 /\ Len(s.new_points[2]) = 2
        canClear == Len(s.new_points[1]) = 2 \/ Len(s.new_points[2]) = 2
    IN  [s EXCEPT
           !.tp_remove_btn = IF canRemove THEN "active" ELSE "disabled",
           !.tp_commit_btn = IF canAdd THEN "active" ELSE "disabled",
           !.tp_clear_btn = IF canClear THEN "active" ELSE "disabled"]

\* TargetProcessor.update_img_estim : the atlas is resliced at the pose of
\* the target and the reslice is loaded into img_estim; the pixels, the
\* spacing and the coordinates of the reslice are not modelled
update_img_estim(target) ==
    [target EXCEPT !.img_estim =
       Image_load_img(@, [shape |-> <<1, 1>>,
                          data |-> [ix \in {<<1, 1>>} |-> 0]])]

\* TargetProcessor.show_atlas : the values of the three rotation sliders
\* and of the translation slider are written into the current target and
\* its reslice is computed again
show_atlas(s, thetas, translation) ==
    [s EXCEPT !.slides[s.tp_curr_slide_var].targets[s.tp_curr_target_var] =
       update_img_estim([@ EXCEPT !.thetas = thetas,
                                  !.T_estim[1] = translation])]

\* TargetProcessor.update : the selected slide and target are looked up; a
\* target whose angles are all zero takes the mean, cut to an integer, of
\* the angles of the targets of the slide that have a non-zero angle; the
\* sliders are set from the target, the pending points are dropped, the
\* atlas pane is drawn and the buttons are set
tp_update(s) ==
    IF s.tp_curr_slide_var \notin 1..Len(s.slides)
    THEN Raise(s, "IndexError")
    ELSE IF s.tp_curr_target_var
              \notin 1..Len(s.slides[s.tp_curr_slide_var].targets)
    THEN Raise(s, "IndexError")
    ELSE LET targets == s.slides[s.tp_curr_slide_var].targets
             cur == targets[s.tp_curr_target_var]
             posed == {k \in 1..Len(targets) :
                         targets[k].thetas # <<0, 0, 0>>}
             n == Cardinality(posed)
             thetas_avg[k \in 0..Len(targets)] ==
                 IF k = 0 THEN <<0, 0, 0>>
                 ELSE IF k \in posed
                 THEN [a \in 1..3 |->
                         thetas_avg[k - 1][a] + targets[k].thetas[a]]
                 ELSE thetas_avg[k - 1]
             cut(a) == IF a >= 0 THEN a \div n ELSE -((-a) \div n)
             thetas == IF cur.thetas = <<0, 0, 0>> /\ n > 0
                       THEN [a \in 1..3 |-> cut(thetas_avg[Len(targets)][a])]
                       ELSE cur.thetas
         IN  tp_update_buttons(
               show_atlas([s EXCEPT !.new_points = NoNewPoints],
                          thetas, cur.T_estim[1]))

\* TargetProcessor.on_click : a click at (x, y) in pane 1 (the target) or
\* pane 2 (the atlas) is the pending point [y, x] of that pane
tp_on_click(s, pane, x, y) ==
    tp_update_buttons([s EXCEPT !.new_points[pane] = <<y, x>>])

\* TargetProcessor.remove
tp_remove(s) ==
    LET r == remove_landmarks(tp_currTarget(s))
    IN  IF ~r.ok THEN Raise(s, "IndexError")
        ELSE tp_update(
               [s EXCEPT !.slides[s.tp_curr_slide_var]
                           .targets[s.tp_curr_target_var] = r.target])

\* a slip the landmark claim must notice : the atlas point is not stored
tp_commit_target_only(s) ==
    tp_update(
      [s EXCEPT !.slides[s.tp_curr_slide_var].targets[s.tp_curr_target_var]
                   .landmarks.target = Append(@, s.new_points[1]),
                !.slides[s.tp_curr_slide_var].targets[s.tp_curr_target_var]
                   .num_landmarks = @ + 1,
                !.new_points = NoNewPoints])

\* TargetProcessor.commit
tp_commit(s) ==
    tp_update(
      [s EXCEPT !.slides[s.tp_curr_slide_var].targets[s.tp_curr_target_var] =
                   add_landmarks(@, s.new_points[1], s.new_points[2]),
                !.new_points = NoNewPoints])

\* TargetProcessor.clear
tp_clear(s) == tp_update([s EXCEPT !.new_points = NoNewPoints])

\* TargetProcessor.save_params : set_param(key, float(entry)) for the keys
\* of the parameter entries in their order, vals the numbers in the entries
\* (an entry only accepts text that float() parses)
RECURSIVE save_params(_, _, _)
save_params(s, keys, vals) ==
    IF keys = << >> THEN s
    ELSE LET r == set_param(tp_currTarget(s), s.DEFAULT_STALIGN_PARAMS,
                            Head(keys), << vals[Head(keys)] >>)
         IN  save_params(
               [s EXCEPT
                  !.slides[s.tp_curr_slide_var].targets[s.tp_curr_target_var]
                     = r.target,
                  !.DEFAULT_STALIGN_PARAMS = r.defaults],
               Tail(keys), vals)

\* TargetProcessor.switch_slides
tp_switch_slides(s, k) ==
    tp_update([s EXCEPT !.tp_curr_slide_var = k, !.tp_curr_target_var = 1])

\* TargetProcessor.activate : the reslices are computed from the downscaled
\* atlas, the page is packed and show_widgets calls update
TargetProcessor_activate(s) ==
    IF ~s.atlas_loaded THEN Raise(s, "TypeError")
    ELSE tp_update(
           pack([s EXCEPT !.slides =
                   [i \in 1..Len(s.slides) |->
                      [s.slides[i] EXCEPT !.targets =
                         [j \in 1..Len(s.slides[i].targets) |->
                            update_img_estim(s.slides[i].targets[j])]]]],
                2))

\* TargetProcessor.done, the os.mkdir calls in traversal order : mkdir
\* raises FileExistsError for a folder an earlier execution made
RECURSIVE tp_make_folders(_, _)
tp_make_folders(s, pairs) ==
    IF pairs = << >> THEN s
    ELSE LET f == get_folder(Head(pairs)[1], Head(pairs)[2],
                             stalign_iterations)
         IN  IF f \in s.target_folders
             THEN Raise(s, "FileExistsError")
             ELSE tp_make_folders(
                    [s EXCEPT !.target_folders = @ \cup {f}], Tail(pairs))

\* TargetProcessor.done.  estimateOK : estimate_pix_dim finds a contour in
\* every target of the first slide.  Every slide of the project has a
\* target when this runs with slides, so the first mkdir follows the first
\* estimate.
TargetProcessor_done(s, estimateOK) ==
    IF s.slides # << >> /\ ~estimateOK
    THEN Raise(s, "GeometryNotFound")
    ELSE LET r == tp_make_folders(s, AllTargets(s.slides))
         IN  IF Raised(r) THEN r ELSE pack_forget(r, 2)

\* TargetProcessor.cancel, for one target : remove_landmarks is called
\* num_landmarks times
RECURSIVE tp_clear_landmarks(_, _)
tp_clear_landmarks(target, n) ==
    IF n = 0 THEN target
    ELSE tp_clear_landmarks(remove_landmarks(target).target, n - 1)

\* a slip the cancel claim must notice : the landmarks are cleared, the
\* pose, the parameters and the reslice stay
TargetProcessor_cancel_landmarks_only(s) ==
    pack_forget(
      [s EXCEPT !.slides =
         [i \in 1..Len(s.slides) |->
            [s.slides[i] EXCEPT !.targets =
               [j \in 1..Len(s.slides[i].targets) |->
                  tp_clear_landmarks(s.slides[i].targets[j],
                                     s.slides[i].targets[j].num_landmarks)]]]],
      2)

\* TargetProcessor.cancel : for every target set_param(), new zero arrays
\* for the pose, a new Image for the reslice, the landmarks removed
TargetProcessor_cancel(s) ==
    pack_forget(
      [s EXCEPT !.slides =
         [i \in 1..Len(s.slides) |->
            [s.slides[i] EXCEPT !.targets =
               [j \in 1..Len(s.slides[i].targets) |->
                  tp_clear_landmarks(
                    [set_param(s.slides[i].targets[j],
                               s.DEFAULT_STALIGN_PARAMS, "None", << >>).target
                       EXCEPT !.thetas = <<0, 0, 0>>,
                              !.T_estim = <<0, 0, 0>>,
                              !.img_estim = Image],
                    s.slides[i].targets[j].num_landmarks)]]]],
      2)

\* --------------------------------------------------------- STalignRunner
\* STalignRunner.activate : estimate_time, pack, show_widgets packs the
\* Run button
STalignRunner_activate(s) == [pack(s, 3) EXCEPT !.start_btn_packed = TRUE]

\* STalignRunner.show_results : update_result_viewer looks up the first
\* target of the first slide
show_results(s) ==
    IF s.slides = << >> \/ s.slides[1].targets = << >>
    THEN Raise(s, "IndexError")
    ELSE s

\* STalignRunner.run up to the first self.update() of its loop : the Run
\* button is hidden and the first target is taken from the lists; with no
\* target the results are shown at once
run_begin(s) ==
    LET s1 == [s EXCEPT !.start_btn_packed = FALSE]
        rest == AllTargets(s1.slides)
    IN  IF rest = << >> THEN show_results(s1)
        ELSE [s1 EXCEPT !.run_active = TRUE, !.run_orphan = "none",
                        !.run_sn = rest[1][1], !.run_tn = rest[1][2]]

\* the run is over
run_end(s) ==
    [s EXCEPT !.run_active = FALSE, !.run_orphan = "none",
              !.run_sn = 1, !.run_tn = 1]

\* STalignRunner.run from one self.update() of the loop to the next.  The
\* target taken before the update (target run_tn of slide run_sn, unless it
\* left the project meanwhile) gets its transform and its segmentation; then
\* the list iterators give the next target: the inner one continues in the
\* list it was made for, the outer one in self.slides.
\* transformOK : get_transform returns.
run_step(s, transformOK) ==
    IF ~transformOK THEN Raise(run_end(s), "RunFailed")
    ELSE LET s1 == IF s.run_orphan # "none" THEN s
                   ELSE [s EXCEPT
                     !.slides[s.run_sn].targets[s.run_tn].transform = TRUE,
                     !.slides[s.run_sn].targets[s.run_tn].seg_stalign = TRUE]
             rest == IF s.run_orphan = "slide"
                     THEN TargetsFrom(s.slides, s.run_sn + 1, 1)
                     ELSE TargetsFrom(s.slides, s.run_sn, s.run_tn + 1)
         IN  IF rest = << >> THEN show_results(run_end(s1))
             ELSE [s1 EXCEPT !.run_orphan = "none",
                             !.run_sn = rest[1][1], !.run_tn = rest[1][2]]

\* STalignRunner.done
STalignRunner_done(s) ==
    IF s.slides = << >> \/ s.slides[1].targets = << >>
    THEN Raise(s, "IndexError")
    ELSE IF ~s.slides[1].targets[1].transform
    THEN Raise(s, "NotRun")
    ELSE pack_forget(s, 3)

\* STalignRunner.cancel
STalignRunner_cancel(s) ==
    pack_forget(
      [s EXCEPT !.slides =
         [i \in 1..Len(s.slides) |->
            [s.slides[i] EXCEPT !.targets =
               [j \in 1..Len(s.slides[i].targets) |->
                  [s.slides[i].targets[j] EXCEPT !.transform = FALSE,
                                                 !.seg_stalign = FALSE]]]]],
      3)

\* ------------------------------------------------------- VisuAlignRunner
\* a slip the manifest claim must notice : the entries are anchored in the
\* order they are written
write_manifest_forward(sl) ==
    [ k \in 1..Len(AllTargets(sl)) |->
        [ filename |-> get_filename(AllTargets(sl)[k][1],
                                    AllTargets(sl)[k][2]),
          anchoring |-> k - 1 ] ]

\* the "slices" of CLICK_ME.json : one entry per target in traversal order;
\* the entry written i-th (i from 0) is anchored at len(raw_stack) - i - 1
write_manifest(sl) ==
    LET raw_stack == AllTargets(sl)
    IN  [ k \in 1..Len(raw_stack) |->
            [ filename |-> get_filename(raw_stack[k][1], raw_stack[k][2]),
              anchoring |-> Len(raw_stack) - (k - 1) - 1 ] ]

\* VisuAlignRunner.activate : the segmentations are stacked into the label
\* volume, then the manifest CLICK_ME.json is written
VisuAlignRunner_activate(s) ==
    LET all == AllTargets(s.slides)
    IN  IF \E k \in 1..Len(all) :
              ~s.slides[all[k][1]].targets[all[k][2]].seg_stalign
        THEN Raise(s, "AttributeError")
        ELSE IF all = << >>
        THEN Raise(s, "IndexError")
        ELSE pack([s EXCEPT !.va_labels = TRUE, !.va_project_folder = TRUE,
                            !.va_manifest = TRUE,
                            !.click_me = write_manifest(s.slides)], 4)

\* VisuAlignRunner.deactivate : os.remove of the manifest, then of the
\* label volume
VisuAlignRunner_deactivate(s) ==
    IF ~s.va_project_folder THEN Raise(s, "AttributeError")
    ELSE IF ~s.va_manifest THEN Raise(s, "FileNotFoundError")
    ELSE IF ~s.va_labels
    THEN Raise([s EXCEPT !.va_manifest = FALSE, !.click_me = << >>],
               "FileNotFoundError")
    ELSE pack_forget([s EXCEPT !.va_manifest = FALSE, !.click_me = << >>,
                               !.va_labels = FALSE], 4)

\* VisuAlignRunner.done, the loop from `pairs` on.  flat : the targets whose
\* export file exists.
RECURSIVE va_read_exports(_, _, _)
va_read_exports(s, pairs, flat) ==
    IF pairs = << >> THEN s
    ELSE LET si == Head(pairs)[1]
             ti == Head(pairs)[2]
         IN  IF ~s.va_project_folder THEN Raise(s, "AttributeError")
             ELSE IF Head(pairs) \in flat
             THEN va_read_exports(
                    [s EXCEPT !.slides[si].targets[ti].seg_visualign =
                                "visualign"], Tail(pairs), flat)
             ELSE IF ~s.slides[si].targets[ti].seg_stalign
             THEN Raise(s, "AttributeError")
             ELSE va_read_exports(
                    [s EXCEPT !.slides[si].targets[ti].seg_visualign =
                                "stalign copy"], Tail(pairs), flat)

\* a slip the fallback claim must notice : a missing export file stops done
VisuAlignRunner_done_requires_exports(s, flat) ==
    IF \E k \in 1..Len(AllTargets(s.slides)) :
          AllTargets(s.slides)[k] \notin flat
    THEN Raise(s, "FileNotFoundError")
    ELSE VisuAlignRunner_deactivate(
           va_read_exports(s, AllTargets(s.slides), flat))

\* VisuAlignRunner.done
VisuAlignRunner_done(s, flat) ==
    LET r == va_read_exports(s, AllTargets(s.slides), flat)
    IN  IF Raised(r) THEN r ELSE VisuAlignRunner_deactivate(r)

\* VisuAlignRunner.cancel
VisuAlignRunner_cancel(s) == VisuAlignRunner_deactivate(s)

\* ---------------------------------------------------------- RegionPicker
\* RegionPicker.make_tree : the tree rejects an item id it already holds
make_tree(s) ==
    IF s.region_tree_built THEN Raise(s, "TclError")
    ELSE [s EXCEPT !.region_tree_built = TRUE]

\* RegionPicker.update : the first target of the first slide is looked up
rp_update(s) ==
    IF s.slides = << >> \/ s.slides[1].targets = << >>
    THEN Raise(s, "IndexError")
    ELSE s

\* RegionPicker.activate
RegionPicker_activate(s) ==
    LET r == make_tree(s)
    IN  IF Raised(r) THEN r ELSE rp_update(pack(r, 5))

\* the hull shapely.concave_hull gives for cluster l of a region : a
\* polygon of l + 2 distinct vertices, as (row, column)
HullVertices(l) == [ i \in 1..(l + 2) |-> <<i - 1, (i - 1) * (i - 1)>> ]

\* shapely.get_coordinates of a Polygon : the exterior ring, which repeats
\* its first vertex at the end
get_coordinates(hull) == Append(hull, hull[1])

\* target.region_boundaries[shape_name] = bound : a dict keeps the place of
\* a key it holds and puts a new key last
store_boundary(rb, shape_name, bound) ==
    IF \E i \in 1..Len(rb) : rb[i].name = shape_name
    THEN [ i \in 1..Len(rb) |->
             IF rb[i].name = shape_name
             THEN [name |-> shape_name, shape |-> bound] ELSE rb[i] ]
    ELSE Append(rb, [name |-> shape_name, shape |-> bound])

\* RegionPicker.done for one target : the polygon hulls of clusters
\* l .. n are stored
RECURSIVE rp_store_hulls(_, _, _)
rp_store_hulls(target, l, n) ==
    IF l > n THEN target
    ELSE rp_store_hulls(
           [target EXCEPT !.region_boundaries =
              store_boundary(@, l, get_coordinates(HullVertices(l)))],
           l + 1, n)

\* RegionPicker.done.  hulls : for every target, the number of clusters of
\* the chosen regions whose hull is a polygon.
RegionPicker_done(s, hulls) ==
    pack_forget(
      [s EXCEPT !.slides =
         [i \in 1..Len(s.slides) |->
            [s.slides[i] EXCEPT !.targets =
               [j \in 1..Len(s.slides[i].targets) |->
                  rp_store_hulls(s.slides[i].targets[j], 1,
                                 hulls[get_filename(i, j)])]]]],
      5)

\* RegionPicker.cancel
RegionPicker_cancel(s) == pack_forget(s, 5)

\* -------------------------------------------------------------- Exporter
\* a slip the button claim must notice : a re-queued exported target does
\* not count as queued
ex_update_buttons_new_only(s) ==
    IF s.ex_curr_slide_var \notin 1..Len(s.exported)
    THEN Raise(s, "IndexError")
    ELSE LET row == s.exported[s.ex_curr_slide_var]
             queued == \E i \in 1..Len(row) : row[i] = -NOT_EXPORTED
         IN  [s EXCEPT
                !.toggle_all_btn = IF queued THEN "Deselect All"
                                   ELSE "Select All",
                !.export_btn = IF queued THEN "active" ELSE "disabled"]

\* Exporter.update_buttons
ex_update_buttons(s) ==
    IF s.ex_curr_slide_var \notin 1..Len(s.exported)
    THEN Raise(s, "IndexError")
    ELSE LET row == s.exported[s.ex_curr_slide_var]
             queued == \E i \in 1..Len(row) : row[i] < 0
         IN  [s EXCEPT
                !.toggle_all_btn = IF queued THEN "Deselect All"
                                   ELSE "Select All",
                !.export_btn = IF queued THEN "active" ELSE "disabled"]

\* Exporter.update
ex_update(s) ==
    IF s.ex_curr_slide_var \notin 1..Len(s.slides)
    THEN Raise(s, "IndexError")
    ELSE ex_update_buttons(s)

\* Exporter.activate : every target not exported, no output file yet
Exporter_activate(s) ==
    ex_update(
      pack([s EXCEPT
              !.exported = [i \in 1..Len(s.slides) |->
                              [j \in 1..Len(s.slides[i].targets) |->
                                 NOT_EXPORTED]],
              !.numOutputs = [i \in 1..Len(s.slides) |-> 0]], 6))

\* the test of Exporter.on_click : (x, y) lies in the outline of target t
Contains(t, x, y) ==
    /\ t.x_offset <= x /\ x <= t.x_offset + t.w
    /\ t.y_offset <= y /\ y <= t.y_offset + t.h

\* a slip the export-status claim must notice : every target whose outline
\* holds the point changes sign, not the first one alone
ex_on_click_every_hit(s, x, y) ==
    LET idx == s.ex_curr_slide_var
        tg == s.slides[idx].targets
    IN  ex_update(
          [s EXCEPT !.exported[idx] =
             [i \in 1..Len(tg) |->
                IF Contains(tg[i], x, y) THEN -1 * @[i] ELSE @[i]]])

\* Exporter.on_click with the left button at (x, y) inside the axes : the
\* status of the first target whose outline holds the point changes sign
ex_on_click(s, x, y) ==
    LET idx == s.ex_curr_slide_var
        tg == s.slides[idx].targets
        hits == {i \in 1..Len(tg) : Contains(tg[i], x, y)}
    IN  IF hits = {} THEN s
        ELSE LET i == CHOOSE h \in hits : \A k \in hits : h <= k
             IN  ex_update([s EXCEPT !.exported[idx][i] = -1 * @])

\* a slip the toggle claim must notice : every status changes sign, queued
\* target on the slide or not
toggle_select_flips_all(s) ==
    LET idx == s.ex_curr_slide_var
        row == s.exported[idx]
    IN  [s EXCEPT !.exported[idx] = [i \in 1..Len(row) |-> -1 * row[i]]]

\* Exporter.toggle_select
toggle_select(s) ==
    LET idx == s.ex_curr_slide_var
        row == s.exported[idx]
        has_neg == \E i \in 1..Len(row) : row[i] < 0
    IN  ex_update(
          [s EXCEPT !.exported[idx] =
             [i \in 1..Len(row) |->
                IF row[i] < 0 \/ ~has_neg THEN -1 * row[i] ELSE row[i]]])

\* the calibration points Exporter.export writes
cp_sorted(s) == s.slides[s.ex_curr_slide_var].calibration_points

\* Exporter.write_target_shapes : one Shape block per boundary of the
\* target, each with len(shape) + 1 coordinate pairs (X, Y), the pair
\* written j-th (j from 0) being shape[j % len(shape)] moved by the offsets
write_target_shapes(target, targetIndex, numShapesExported) ==
    LET rb == target.region_boundaries
    IN  [ i \in 1..Len(rb) |->
            LET shape == rb[i].shape
            IN  [ number |-> numShapesExported + (i - 1) + 1,
                  PointCount |-> Len(shape) + 1,
                  TransferID |-> <<rb[i].name, targetIndex>>,
                  points |->
                    [ j \in 1..(Len(shape) + 1) |->
                        LET pt == shape[((j - 1) % Len(shape)) + 1]
                        IN  << pt[2] + target.x_offset,
                               pt[1] + target.y_offset >> ] ] ]

\* sum([len(t.region_boundaries) for t in targets])
RECURSIVE sum_boundaries(_)
sum_boundaries(targets) ==
    IF targets = << >> THEN 0
    ELSE Len(Head(targets).region_boundaries) + sum_boundaries(Tail(targets))

\* Exporter.export, the loop over the targets of the slide from target ti
\* on : the Shape blocks of the targets whose status is not positive
RECURSIVE export_shapes(_, _, _, _)
export_shapes(targets, row, ti, numShapesExported) ==
    IF ti > Len(targets) THEN << >>
    ELSE IF row[ti] > 0
    THEN export_shapes(targets, row, ti + 1, numShapesExported)
    ELSE write_target_shapes(targets[ti], ti - 1, numShapesExported)
         \o export_shapes(targets, row, ti + 1,
                          numShapesExported
                            + Len(targets[ti].region_boundaries))

\* a slip the export claim must notice : the whole slide is marked exported
export_whole_slide(s, ioOK) ==
    LET idx == s.ex_curr_slide_var
        row == s.exported[idx]
    IN  IF ~ioOK THEN Raise(s, "OSError")
        ELSE [s EXCEPT !.exported[idx] = [i \in 1..Len(row) |-> EXPORTED]]

\* Exporter.export.  ioOK : the output file can be opened for writing.
export(s, ioOK) ==
    LET idx == s.ex_curr_slide_var
        s1 == [s EXCEPT !.numOutputs[idx] = @ + 1]
        row == s.exported[idx]
        targets == s.slides[idx].targets
    IN  IF ~ioOK THEN Raise(s1, "OSError")
        ELSE ex_update(
               [s1 EXCEPT
                  !.output_file =
                     [ slide |-> idx, number |-> s.numOutputs[idx],
                       ShapeCount |-> sum_boundaries(targets),
                       shapes |-> export_shapes(targets, row, 1, 0) ],
                  !.exported[idx] =
                     [i \in 1..Len(row) |->
                        IF row[i] > 0 THEN row[i] ELSE EXPORTED]])

\* Exporter.update bound to the slide combobox
ex_switch_slides(s, k) == ex_update([s EXCEPT !.ex_curr_slide_var = k])

\* Exporter.done
Exporter_done(s) == pack_forget(s, 6)

\* Exporter.cancel
Exporter_cancel(s) == pack_forget(s, 6)

\* ------------------------------------------------------------------- App
\* what the operating system and the operator's files answer to a done();
\* the sample folder holds no more images than bring the project to
\* maxSlides slides.  Starter.done asks for the atlas files only with an
\* atlas picked and a folder typed, and for the folder only when it exists
Environments(s, maxSlides) ==
    [ atlasOK : IF /\ s.page_index = 0 /\ s.atlas_name # ChooseAtlas
                   /\ s.slides_folder_name # ""
                THEN BOOLEAN ELSE {TRUE},
      nImages : IF /\ s.page_index = 0 /\ s.atlas_name # ChooseAtlas
                   /\ s.slides_folder_name = "samples"
                THEN 0..(maxSlides - Len(s.slides)) ELSE {0},
      mkdirOK : IF /\ s.page_index = 0 /\ s.atlas_name # ChooseAtlas
                   /\ s.slides_folder_name = "samples"
                THEN BOOLEAN ELSE {TRUE},
      estimateOK : IF s.page_index = 2 THEN BOOLEAN ELSE {TRUE},
      flat : IF s.page_index = 4
             THEN SUBSET {get_filename(AllTargets(s.slides)[k][1],
                                       AllTargets(s.slides)[k][2]) :
                            k \in 1..Len(AllTargets(s.slides))}
             ELSE {{}},
      hulls : IF s.page_index = 5
              THEN [ {get_filename(AllTargets(s.slides)[k][1],
                                   AllTargets(s.slides)[k][2]) :
                        k \in 1..Len(AllTargets(s.slides))}
                     -> 0..MaxShapes ]
              ELSE {<< >>} ]

\* self.pages[i].activate()
activate(s, i) ==
    CASE i = 0 -> Starter_activate(s)
      [] i = 1 -> SlideProcessor_activate(s)
      [] i = 2 -> TargetProcessor_activate(s)
      [] i = 3 -> STalignRunner_activate(s)
      [] i = 4 -> VisuAlignRunner_activate(s)
      [] i = 5 -> RegionPicker_activate(s)
      [] OTHER -> Exporter_activate(s)

\* self.pages[i].done()
done(s, i, env) ==
    CASE i = 0 -> Starter_done(s, env.atlasOK, env.nImages, env.mkdirOK)
      [] i = 1 -> SlideProcessor_done(s)
      [] i = 2 -> TargetProcessor_done(s, env.estimateOK)
      [] i = 3 -> STalignRunner_done(s)
      [] i = 4 -> VisuAlignRunner_done(s, env.flat)
      [] i = 5 -> RegionPicker_done(s, env.hulls)
      [] OTHER -> Exporter_done(s)

\* self.pages[i].cancel()
cancel(s, i) ==
    CASE i = 0 -> Starter_cancel(s)
      [] i = 1 -> SlideProcessor_cancel(s)
      [] i = 2 -> TargetProcessor_cancel(s)
      [] i = 3 -> STalignRunner_cancel(s)
      [] i = 4 -> VisuAlignRunner_cancel(s)
      [] i = 5 -> RegionPicker_cancel(s)
      [] OTHER -> Exporter_cancel(s)

\* App.update : the current page is activated, then the header and the two
\* navigation buttons are set
update(s) ==
    LET r == activate(s, s.page_index)
    IN  IF Raised(r) THEN r
        ELSE [r EXCEPT
                !.page_label = r.page_index,
                !.prev_btn = IF r.page_index = 0 THEN "Exit" ELSE "Previous",
                !.next_btn = IF r.page_index = LastPage THEN "Finish"
                             ELSE "Next"]

\* App.destroy
destroy(s) == [s EXCEPT !.destroyed = TRUE]

\* App.next_page
next_page(s, env) ==
    LET r == done(s, s.page_index, env)
    IN  IF Raised(r) THEN r
        ELSE IF r.page_index = LastPage THEN destroy(r)
        ELSE update([r EXCEPT !.page_index = @ + 1])

\* App.prev_page
prev_page(s) ==
    LET r == cancel(s, s.page_index)
    IN  IF Raised(r) THEN r
        ELSE IF r.page_index = 0 THEN destroy(r)
        ELSE update([r EXCEPT !.page_index = @ - 1])

\* ------------------------------------------------------- the event loop
\* the widgets of page i can be operated
Visible(i) == ~destroyed /\ i \in packed

\* the clicks and drags of the wizard specification, and the clicks of the
\* Exporter specification
NavPoints == {<<0, 0>>}
NavRects == {[x |-> 0, y |-> 0, w |-> 1, h |-> 1]}
ExportClicks == {<<0, 0>>, <<1, 1>>, <<2, 2>>, <<4, 4>>}

\* the operator picks an atlas in the combobox of the Starter page
SelectAtlas ==
    /\ Visible(0)
    /\ Handle("atlas_picker", [Enter(St) EXCEPT !.atlas_name = "atlas"])

\* the operator types or browses a sample folder
SetFolder ==
    /\ Visible(0)
    /\ \E f \in FolderNames :
         Handle("slides_folder_name",
                [Enter(St) EXCEPT !.slides_folder_name = f])

\* the Next button, pressed in one of the environments envs
PressNextWith(envs) ==
    /\ ~destroyed
    /\ \E env \in envs :
         \E t \in {next_page(Enter(St), env)} : Handle("next_page", t)

\* the Next button
PressNext(maxSlides) == PressNextWith(Environments(St, maxSlides))

\* the environments in which the operator has checked no region of the
\* tree, so that RegionPicker.done finds no hull
NoRegions(envs) ==
    {env \in envs : \A t \in DOMAIN env.hulls : env.hulls[t] = 0}

\* the Previous button
PressPrevious ==
    /\ ~destroyed
    /\ \E t \in {prev_page(Enter(St))} : Handle("prev_page", t)

\* SlideProcessor : the slide combobox
SPSelectSlide ==
    /\ Visible(1)
    /\ \E k \in 1..Len(slides) :
         \E t \in {sp_refresh([Enter(St) EXCEPT !.sp_curr_slide_var = k])} :
            Handle("refresh", t)

\* SlideProcessor : the two mode buttons
SPPointMode ==
    /\ Visible(1)
    /\ \E t \in {activate_point_mode(
                   [Enter(St) EXCEPT !.annotation_mode = "point"])} :
         Handle("activate_point_mode", t)

SPRectMode ==
    /\ Visible(1)
    /\ \E t \in {activate_rect_mode(
                   [Enter(St) EXCEPT !.annotation_mode = "rect"])} :
         Handle("activate_rect_mode", t)

\* SlideProcessor : a left click at one of `points`, delivered while an
\* on_click connection exists
SPClick(points) ==
    /\ Visible(1) /\ click_handlers > 0
    /\ \E p \in points :
         \E t \in {sp_on_click(Enter(St), p)} : Handle("on_click", t)

\* SlideProcessor : a drag over one of `rects`, delivered while the
\* rectangle selector is active
SPDrag(rects) ==
    /\ Visible(1) /\ slice_selector_active
    /\ \E r \in rects :
         \E t \in {sp_on_select(Enter(St), r.x, r.y, r.w, r.h)} :
            Handle("on_select", t)

\* SlideProcessor : the buttons, which Tk runs only when enabled (the Clear
\* button is enabled and disabled together with the Add button)
SPCommit ==
    /\ Visible(1) /\ sp_commit_btn = "active"
    /\ annotation_mode = "rect" =>
         slides[sp_curr_slide_var].numTargets < MaxTargets
    /\ \E t \in {sp_commit(Enter(St))} : Handle("commit", t)

SPRemove ==
    /\ Visible(1) /\ sp_remove_btn = "active"
    /\ \E t \in {sp_remove(Enter(St))} : Handle("remove", t)

SPClear ==
    /\ Visible(1) /\ sp_commit_btn = "active"
    /\ \E t \in {sp_update_buttons(sp_clear(Enter(St)))} : Handle("clear", t)

\* TargetProcessor : the slide and the target combobox
TPSelectSlide ==
    /\ Visible(2)
    /\ \E k \in 1..Len(slides) :
         \E t \in {tp_switch_slides(Enter(St), k)} :
            Handle("switch_slides", t)

TPSelectTarget ==
    /\ Visible(2) /\ tp_curr_slide_var \in 1..Len(slides)
    /\ \E j \in 1..Len(slides[tp_curr_slide_var].targets) :
         \E t \in {tp_update([Enter(St) EXCEPT !.tp_curr_target_var = j])} :
            Handle("update", t)

\* TargetProcessor : a click at one of `points` in the target pane (1) or
\* in the atlas pane (2)
TPClick(points) ==
    /\ Visible(2) /\ tp_curr_slide_var \in 1..Len(slides)
    /\ tp_curr_target_var \in 1..Len(slides[tp_curr_slide_var].targets)
    /\ \E pane \in 1..2 : \E p \in points :
         \E t \in {tp_on_click(Enter(St), pane, p[1], p[2])} :
            Handle("on_click", t)

\* TargetProcessor : the buttons, which Tk runs only when enabled
TPCommit ==
    /\ Visible(2) /\ tp_commit_btn = "active"
    /\ tp_currTarget(St).num_landmarks < MaxLandmarks
    /\ \E t \in {tp_commit(Enter(St))} : Handle("commit", t)

TPRemove ==
    /\ Visible(2) /\ tp_remove_btn = "active"
    /\ \E t \in {tp_remove(Enter(St))} : Handle("remove", t)

TPClear ==
    /\ Visible(2) /\ tp_clear_btn = "active"
    /\ \E t \in {tp_clear(Enter(St))} : Handle("clear", t)

\* STalignRunner : the Run button; one run at a time
PressRun ==
    /\ Visible(3) /\ start_btn_packed /\ ~run_active
    /\ \E t \in {run_begin(Enter(St))} : Handle("run", t)

\* STalignRunner : the run goes on behind the events self.update() served
RunStep ==
    /\ ~destroyed /\ run_active
    /\ \E ok \in BOOLEAN :
         \E t \in {run_step(Enter(St), ok)} : Handle("run", t)

\* Exporter : a click at one of `points`
EXClick(points) ==
    /\ Visible(6) /\ ex_curr_slide_var \in 1..Len(slides)
    /\ ex_curr_slide_var \in 1..Len(exported)
    /\ \E p \in points :
         \E t \in {ex_on_click(Enter(St), p[1], p[2])} :
            Handle("on_click", t)

EXToggle ==
    /\ Visible(6) /\ ex_curr_slide_var \in 1..Len(exported)
    /\ \E t \in {toggle_select(Enter(St))} : Handle("toggle_select", t)

EXExport ==
    /\ Visible(6) /\ export_btn = "active"
    /\ ex_curr_slide_var \in 1..Len(exported)
    /\ numOutputs[ex_curr_slide_var] < MaxOutputs
    /\ \E ioOK \in BOOLEAN :
         \E t \in {export(Enter(St), ioOK)} : Handle("export", t)

EXSelectSlide ==
    /\ Visible(6)
    /\ \E k \in 1..Len(exported) :
         \E t \in {ex_switch_slides(Enter(St), k)} : Handle("update", t)

\* App.__init__ : page 0 is shown by App.update
InitState ==
    [ page_index |-> 0, prev_btn |-> "Exit", next_btn |-> "Next",
      page_label |-> 0, destroyed |-> FALSE, packed |-> {0},
      slides |-> << >>, folder |-> FALSE, atlas_loaded |-> FALSE,
      target_folders |-> {},
      project_files |-> [target_coordinates |-> FALSE,
                         calibration_points |-> FALSE, images |-> {}],
      DEFAULT_STALIGN_PARAMS |->
         [timesteps |-> 24, iterations |-> 200, sigmaM |-> 1, sigmaP |-> 2,
          sigmaR |-> 200000000, resolution |-> 500],
      image_files |-> 0,
      atlases |-> [FSR |-> Image, DSR |-> Image, FSL |-> Image, DSL |-> Image],
      image |-> Image,
      atlas_name |-> ChooseAtlas, slides_folder_name |-> "",
      sp_curr_slide_var |-> 1, annotation_mode |-> "point",
      newPoint |-> NoPoint, newTarget |-> NoTarget,
      sp_remove_btn |-> "disabled", sp_commit_btn |-> "disabled",
      click_event |-> FALSE, click_handlers |-> 0,
      slice_selector_active |-> TRUE,
      tp_curr_slide_var |-> 1, tp_curr_target_var |-> 1,
      new_points |-> NoNewPoints, tp_remove_btn |-> "disabled",
      tp_commit_btn |-> "disabled", tp_clear_btn |-> "disabled",
      run_active |-> FALSE, run_sn |-> 1, run_tn |-> 1,
      run_orphan |-> "none", start_btn_packed |-> FALSE,
      va_project_folder |-> FALSE, va_manifest |-> FALSE,
      va_labels |-> FALSE, click_me |-> << >>,
      region_tree_built |-> FALSE,
      exported |-> << >>, numOutputs |-> << >>, ex_curr_slide_var |-> 1,
      toggle_all_btn |-> "", export_btn |-> "disabled",
      output_file |-> NoFile,
      callback |-> "__init__", exc |-> "none" ]

\* the program is in state t
InitFrom(t) ==
    /\ page_index = t.page_index /\ prev_btn = t.prev_btn
    /\ next_btn = t.next_btn /\ page_label = t.page_label
    /\ destroyed = t.destroyed /\ packed = t.packed
    /\ slides = t.slides /\ folder = t.folder
    /\ atlas_loaded = t.atlas_loaded /\ target_folders = t.target_folders
    /\ project_files = t.project_files
    /\ DEFAULT_STALIGN_PARAMS = t.DEFAULT_STALIGN_PARAMS
    /\ image_files = t.image_files /\ atlases = t.atlases
    /\ image = t.image
    /\ atlas_name = t.atlas_name
    /\ slides_folder_name = t.slides_folder_name
    /\ sp_curr_slide_var = t.sp_curr_slide_var
    /\ annotation_mode = t.annotation_mode
    /\ newPoint = t.newPoint /\ newTarget = t.newTarget
    /\ sp_remove_btn = t.sp_remove_btn /\ sp_commit_btn = t.sp_commit_btn
    /\ click_event = t.click_event /\ click_handlers = t.click_handlers
    /\ slice_selector_active = t.slice_selector_active
    /\ tp_curr_slide_var = t.tp_curr_slide_var
    /\ tp_curr_target_var = t.tp_curr_target_var
    /\ new_points = t.new_points /\ tp_remove_btn = t.tp_remove_btn
    /\ tp_commit_btn = t.tp_commit_btn /\ tp_clear_btn = t.tp_clear_btn
    /\ run_active = t.run_active /\ run_sn = t.run_sn /\ run_tn = t.run_tn
    /\ run_orphan = t.run_orphan
    /\ start_btn_packed = t.start_btn_packed
    /\ va_project_folder = t.va_project_folder
    /\ va_manifest = t.va_manifest /\ va_labels = t.va_labels
    /\ click_me = t.click_me
    /\ region_tree_built = t.region_tree_built
    /\ exported = t.exported /\ numOutputs = t.numOutputs
    /\ ex_curr_slide_var = t.ex_curr_slide_var
    /\ toggle_all_btn = t.toggle_all_btn /\ export_btn = t.export_btn
    /\ output_file = t.output_file
    /\ callback = t.callback /\ exc = t.exc

\* ------------------------------------------- the wizard from start to end
\* The operator marks the calibration points of the slides, switches to the
\* rectangle mode and marks the targets; every page can be left by either
\* navigation button at any time, also while a registration runs.  The
\* sample folder is typed before the first project folder is made; later
\* visits of the Starter page keep the text of the entry.
Init == InitFrom(InitState)

WizardNext == PressNextWith(NoRegions(Environments(St, MaxSlides)))

Next ==
    \/ SelectAtlas \/ (~folder /\ SetFolder) \/ WizardNext \/ PressPrevious
    \/ SPSelectSlide \/ SPRectMode
    \/ SPClick(NavPoints) \/ SPDrag(NavRects)
    \/ SPCommit \/ SPRemove
    \/ TPSelectSlide \/ TPSelectTarget
    \/ PressRun \/ RunStep

Spec == Init /\ [][Next]_vars

\* ------------------------------------------------ the annotation session
\* The operator loads a sample folder and works on the SlideProcessor page
\* with every control it has: clicks anywhere on a small grid, proper and
\* zero-area drags, both modes, all three buttons.  The session ends on the
\* TargetProcessor page.
CalPoints == (0..MaxX) \X (0..MaxY)
CalRects == {[x |-> 0, y |-> 0, w |-> 1, h |-> 1],
             [x |-> 1, y |-> 1, w |-> 0, h |-> 0],
             [x |-> 2, y |-> 0, w |-> 0, h |-> 1]}

CalNext == page_index <= 1 /\ PressNext(MaxCalSlides)

CalPrevious == page_index <= 2 /\ PressPrevious

NextCal ==
    \/ SelectAtlas \/ SetFolder \/ CalNext \/ CalPrevious
    \/ SPSelectSlide \/ SPPointMode \/ SPRectMode
    \/ SPClick(CalPoints) \/ SPDrag(CalRects)
    \/ SPCommit \/ SPRemove \/ SPClear

SpecCal == Init /\ [][NextCal]_vars

\* ---------------------------------------------------- the export session
\* The operator has taken a project through the wizard without an error and
\* stands on the Exporter page: counts[i] targets were marked on slide i,
\* target j at ExportRect(j); every registration ran; no VisuAlign export
\* was found; hulls[t] polygons bound the chosen regions on target t.
\* In the export session proper the operator has checked no region.
NoHulls == [ t \in (1..MaxExportSlides) \X (1..MaxExportTargets) |-> 0 ]
ExportRect(j) == [x |-> j - 1, y |-> j - 1, w |-> 1, h |-> 1]
ExportCalibration == << <<2, 0>>, <<0, 0>>, <<1, 1>> >>

NominalEnv(n) ==
    [ atlasOK |-> TRUE, nImages |-> n, mkdirOK |-> TRUE, estimateOK |-> TRUE,
      flat |-> {}, hulls |-> << >> ]

\* the operator clicks and commits the calibration points of slide i and of
\* the slides after it
RECURSIVE MarkPoints(_, _)
MarkPoints(s, i) ==
    IF i > Len(s.slides) THEN s
    ELSE LET s0 == sp_refresh([s EXCEPT !.sp_curr_slide_var = i])
             s1 == sp_commit(sp_on_click(s0, ExportCalibration[1]))
             s2 == sp_commit(sp_on_click(s1, ExportCalibration[2]))
             s3 == sp_commit(sp_on_click(s2, ExportCalibration[3]))
         IN  MarkPoints(s3, i + 1)

\* the operator drags and commits target j .. n of the selected slide
RECURSIVE DragTargets(_, _, _)
DragTargets(s, j, n) ==
    IF j > n THEN s
    ELSE LET r == ExportRect(j)
         IN  DragTargets(sp_commit(sp_on_select(s, r.x, r.y, r.w, r.h)),
                         j + 1, n)

RECURSIVE MarkTargets(_, _, _)
MarkTargets(s, i, counts) ==
    IF i > Len(s.slides) THEN s
    ELSE MarkTargets(
           DragTargets(sp_refresh([s EXCEPT !.sp_curr_slide_var = i]),
                       1, counts[i]),
           i + 1, counts)

\* the registration runs to its end
RECURSIVE RunAll(_)
RunAll(s) == IF s.run_active THEN RunAll(run_step(s, TRUE)) ELSE s

\* the operator has marked the slides and stands on the TargetProcessor
\* page
TargetSession(counts) ==
    LET n == Len(counts)
        a0 == [InitState EXCEPT !.atlas_name = "atlas",
                                !.slides_folder_name = "samples"]
        a1 == next_page(a0, NominalEnv(n))
        a2 == MarkPoints(a1, 1)
        a3 == activate_rect_mode([a2 EXCEPT !.annotation_mode = "rect"])
        a4 == MarkTargets(a3, 1, counts)
    IN  next_page(a4, NominalEnv(n))

\* the operator has marked the slides, registered every target and stands
\* on the VisuAlignRunner page
VisuAlignSession(counts) ==
    LET n == Len(counts)
        a5 == next_page(TargetSession(counts), NominalEnv(n))
        a6 == RunAll(run_begin(a5))
    IN  next_page(a6, NominalEnv(n))

ExportSession(counts, hulls) ==
    LET n == Len(counts)
        a7 == next_page(VisuAlignSession(counts), NominalEnv(n))
    IN  next_page(a7, [NominalEnv(n) EXCEPT !.hulls = hulls])

InitExport ==
    \E n \in 1..MaxExportSlides :
       \E counts \in [1..n -> 1..MaxExportTargets] :
          InitFrom(ExportSession(counts, NoHulls))

ExportNext ==
    /\ page_index >= 5
    /\ PressNextWith(NoRegions(Environments(St, MaxExportSlides)))

ExportPrevious == page_index = LastPage /\ PressPrevious

NextExport ==
    \/ EXClick(ExportClicks) \/ EXToggle \/ EXExport \/ EXSelectSlide
    \/ ExportNext \/ ExportPrevious

SpecExport == InitExport /\ [][NextExport]_vars

\* ------------------------------------------------- the landmark session
\* The operator stands on the TargetProcessor page of a project with one
\* slide of several targets or several slides of one target, clicks in
\* both panes, commits, removes and clears landmark pairs, switches slide
\* and target, and moves between the SlideProcessor and the STalignRunner
\* page.
LandmarkClicks == {<<0, 0>>, <<1, 2>>}

InitLandmarks ==
    \E n \in 1..MaxExportSlides :
       \E counts \in [1..n -> 1..MaxExportTargets] :
          /\ n = 1 \/ \A i \in 1..n : counts[i] = 1
          /\ InitFrom(TargetSession(counts))

NextLandmarks ==
    \/ TPClick(LandmarkClicks) \/ TPCommit \/ TPRemove \/ TPClear
    \/ TPSelectSlide \/ TPSelectTarget
    \/ page_index \in 1..2 /\ PressNext(MaxExportSlides)
    \/ page_index \in 2..3 /\ PressPrevious

SpecLandmarks == InitLandmarks /\ [][NextLandmarks]_vars

\* ---------------------------------------------- the Target class called
\* Target.add_landmarks and Target.remove_landmarks are called on the one
\* target of a project, in any order and with any points of the grid, as
\* any caller of the class may do.
InitTarget == InitFrom(TargetSession(<<1>>))

NextTarget ==
    \/ /\ slides[1].targets[1].num_landmarks < MaxLandmarks
       /\ \E p \in CalPoints : \E q \in CalPoints :
            Handle("add_landmarks",
                   [Enter(St) EXCEPT !.slides[1].targets[1] =
                      add_landmarks(@, p, q)])
    \/ \E r \in {remove_landmarks(slides[1].targets[1])} :
          Handle("remove_landmarks",
                 IF r.ok THEN [Enter(St) EXCEPT !.slides[1].targets[1] = r.target]
                 ELSE Raise(Enter(St), "IndexError"))

SpecTarget == InitTarget /\ [][NextTarget]_vars

\* ------------------------------------------------------ the pose session
\* The operator stands on the TargetProcessor page of a project with one
\* slide of several targets, moves a rotation slider or the translation
\* slider, selects a target, types into the parameter entries and saves
\* them, places a landmark pair, and leaves the page by Previous and comes
\* back by Next; Target.set_param is also called as any caller of the class
\* may call it, without arguments, with a key that is no parameter, or
\* without a key.
InitPose == \E n \in 2..MaxPoseTargets : InitFrom(TargetSession(<<n>>))

NextPose ==
    \/ /\ Visible(2)
       /\ \E m \in {<<1, -3>>, <<3, 1>>} :
            Handle("show_atlas",
                   show_atlas(Enter(St),
                              [tp_currTarget(St).thetas EXCEPT ![m[1]] = m[2]],
                              tp_currTarget(St).T_estim[1]))
    \/ /\ Visible(2)
       /\ Handle("show_atlas",
                 show_atlas(Enter(St), tp_currTarget(St).thetas, 2))
    \/ TPSelectTarget
    \/ /\ Visible(2)
       /\ \E vals \in {[DEFAULT_STALIGN_PARAMS EXCEPT !.iterations = 20],
                        [DEFAULT_STALIGN_PARAMS EXCEPT !.sigmaM = 3]} :
            Handle("save_params",
                   save_params(Enter(St),
                               <<"timesteps", "iterations", "sigmaM",
                                 "sigmaP", "sigmaR", "resolution">>, vals))
    \/ /\ Visible(2)
       /\ \E c \in {<<"None", << >> >>, <<"None", <<20>> >>,
                     <<"unknown", <<20>> >>, <<"iterations", <<20>> >>} :
            \E r \in {set_param(tp_currTarget(St), DEFAULT_STALIGN_PARAMS,
                                c[1], c[2])} :
               Handle(IF c = <<"None", << >> >> THEN "set_param()"
                      ELSE IF c[1] = "iterations" THEN "set_param(key, val)"
                      ELSE "set_param(no key of the parameters, val)",
                      [Enter(St) EXCEPT
                         !.slides[tp_curr_slide_var]
                            .targets[tp_curr_target_var] = r.target,
                         !.DEFAULT_STALIGN_PARAMS = r.defaults])
    \/ TPClick({<<0, 0>>})
    \/ Visible(2) /\ tp_currTarget(St).num_landmarks < 1 /\ TPCommit
    \/ page_index = 1 /\ PressNext(MaxSlides)
    \/ page_index = 2 /\ PressPrevious

SpecPose == InitPose /\ [][NextPose]_vars

\* ------------------------------------------------ the VisuAlign session
\* The operator stands on the VisuAlignRunner page of a registered project
\* and moves between the STalignRunner page and the end of the wizard; on
\* the way VisuAlign has exported any subset of the targets, and the
\* registration can be run again.
InitVisuAlign ==
    \E n \in 1..MaxExportSlides :
       \E counts \in [1..n -> 1..MaxExportTargets] :
          InitFrom(VisuAlignSession(counts))

NextVisuAlign ==
    \/ /\ page_index >= 3
       /\ PressNextWith(NoRegions(Environments(St, MaxExportSlides)))
    \/ page_index >= 4 /\ PressPrevious
    \/ PressRun \/ RunStep

SpecVisuAlign == InitVisuAlign /\ [][NextVisuAlign]_vars

\* ------------------------------------------ the export of region outlines
\* The operator has one slide with up to MaxExportTargets targets on the
\* Exporter page, RegionPicker.done has stored up to MaxShapes polygons on
\* each target; the operator queues targets, exports and finishes.
InitShapes ==
    \E count \in 1..MaxExportTargets :
       \E hulls \in [ (1..1) \X (1..MaxExportTargets) -> 0..MaxShapes ] :
          /\ \A j \in 1..MaxExportTargets : j > count => hulls[<<1, j>>] = 0
          /\ InitFrom(ExportSession(<<count>>, hulls))

ShapesFinish == page_index = LastPage /\ PressNext(1)

NextShapes ==
    \/ EXClick(ExportClicks) \/ EXToggle \/ EXExport \/ ShapesFinish

SpecShapes == InitShapes /\ [][NextShapes]_vars

\* ------------------------------------- the images and the atlas by call
\* The classes of images.py are called directly on one object at a time: an
\* Image is made and is given, in any order, an array of zeros (once), a
\* pix_dim and its pix_loc; or a Target is made from a grey crop of one
\* row; or else the atlas of the project is loaded once, from a reference
\* and a label volume of one row of voxels with one spacing per axis.
InitImages == InitFrom(InitState)

NextImages ==
    \/ /\ ~atlases.FSL.loaded
       /\ Handle("Image", [Enter(St) EXCEPT !.image = Image])
    \/ /\ ~atlases.FSL.loaded /\ ~image.loaded
       /\ \E h \in 0..MaxAxis, w \in 0..MaxAxis :
            \E arr \in { [shape |-> <<w>>,
                          data |-> [ix \in {<<i>> : i \in 1..w} |-> 0]],
                         [shape |-> <<h, w>>,
                          data |-> [ix \in (1..h) \X (1..w) |-> 0]] } :
               Handle("load_img",
                      [Enter(St) EXCEPT !.image = Image_load_img(@, arr)])
    \/ /\ ~atlases.FSL.loaded
       /\ \E k \in 1..3 : \E pix_dim \in [1..k -> 1..MaxSpacing] :
            \E r \in {set_pix_dim(image, pix_dim)} :
               Handle("set_pix_dim",
                      [St EXCEPT !.image = r.image, !.exc = r.exc])
    \/ /\ ~atlases.FSL.loaded
       /\ \E r \in {set_pix_loc(image)} :
            Handle("set_pix_loc", [St EXCEPT !.image = r.image, !.exc = r.exc])
    \/ /\ ~atlases.FSL.loaded /\ image = Image
       /\ \E w \in 1..MaxPixels :
            \E data \in [(1..1) \X (1..w) -> {0, 1, 2, 8, 9, 10}] :
               \E pix_dim \in {<< >>} \cup [1..2 -> 1..MaxSpacing] :
                  \E r \in {Target_load_img(
                               Image, [shape |-> <<1, w>>, data |-> data],
                               pix_dim, pix_dim # << >>)} :
                     Handle("Target",
                            [St EXCEPT !.image = r.image, !.exc = r.exc])
    \/ /\ ~atlases.FSL.loaded /\ image = Image
       /\ \E n \in 1..MaxVoxels :
            \E ref \in [(1..1) \X (1..1) \X (1..n) -> {0, 3}],
               lab \in [(1..1) \X (1..1) \X (1..n) -> {0, 1, 3}],
               pix_dim \in [1..3 -> {1, 10, 25, 26, 50, 51, 100}] :
               Handle("load_atlas_info",
                      load_atlas_info(
                        Enter(St),
                        [shape |-> <<1, 1, n>>,
                         data |-> [ix \in DOMAIN ref |->
                                     [num |-> ref[ix], den |-> 1]]],
                        [shape |-> <<1, 1, n>>,
                         data |-> [ix \in DOMAIN lab |->
                                     [num |-> lab[ix], den |-> 1]]],
                        pix_dim))

SpecImages == InitImages /\ [][NextImages]_vars

\* ================================================================ claims
\* C1 (as stated; refuted under Spec).  Pressing Next runs done() of the
\* current page i: when it raises, the index stays i and the pages shown do
\* not change; when it returns and i < 6, the index becomes i + 1 and page
\* i + 1 is the page shown; when it returns and i = 6, the application
\* exits.
C1_NextPressContract ==
    [][callback' = "next_page" =>
         \/ /\ exc' # "none" /\ page_index' = page_index /\ packed' = packed
         \/ /\ exc' = "none" /\ page_index < LastPage
            /\ page_index' = page_index + 1 /\ packed' = {page_index'}
         \/ /\ exc' = "none" /\ page_index = LastPage
            /\ page_index' = page_index /\ destroyed']_vars

\* C2 (as stated; refuted under Spec).  Pressing Previous runs cancel() of
\* the current page i: for i > 0 the index becomes i - 1 and page i - 1 is
\* activated again; for i = 0 the application exits; the index is always
\* within 0..6.
C2_PreviousPressContract ==
    /\ [](page_index \in PageIndices)
    /\ [][callback' = "prev_page" =>
            \/ /\ page_index > 0 /\ page_index' = page_index - 1
               /\ exc' = "none" /\ packed' = {page_index'}
            \/ /\ page_index = 0 /\ page_index' = 0 /\ destroyed']_vars

\* C3.  Pressing Next on the SlideProcessor page while some slide has no
\* target, or a number of calibration points other than three, fails, and
\* the page index stays 1 with the SlideProcessor page shown.
C3_InvalidSlideBlocksNext ==
    [][(/\ callback' = "next_page" /\ page_index = 1
        /\ \E i \in 1..Len(slides) :
              \/ Len(slides[i].targets) = 0
              \/ Len(slides[i].calibration_points) # 3)
       => /\ exc' = "ValidationFailed"
          /\ page_index' = 1 /\ packed' = packed]_vars

\* a project of two slides, the first complete and the second not, was
\* refused by Next
C3_Witness ==
    /\ callback = "next_page" /\ exc = "ValidationFailed" /\ page_index = 1
    /\ Len(slides) = 2
    /\ Len(slides[1].targets) = 1 /\ Len(slides[1].calibration_points) = 3
    /\ Len(slides[2].targets) = 1 /\ Len(slides[2].calibration_points) = 2

\* C4 (as stated; refuted under Spec).  Pressing Next on the STalignRunner
\* page while no target has a transform fails with the NotRun error, and the
\* page index stays 3.
C4_NotRunBlocksNext ==
    [][(/\ callback' = "next_page" /\ page_index = 3
        /\ \A i \in 1..Len(slides) :
              \A j \in 1..Len(slides[i].targets) :
                 ~slides[i].targets[j].transform)
       => exc' = "NotRun" /\ page_index' = 3]_vars

\* C5.  Whenever the page index is 2 (TargetProcessor) or more, every slide
\* of the project has at least one target and exactly three calibration
\* points.
C5_ProjectAnnotated ==
    page_index >= 2 =>
       \A i \in 1..Len(slides) :
          /\ Len(slides[i].targets) >= 1 /\ slides[i].numTargets >= 1
          /\ Len(slides[i].calibration_points) = 3
          /\ slides[i].numCalibrationPoints = 3

\* the operator came back from the STalignRunner page to the TargetProcessor
\* page with a project of two slides
C5_Witness ==
    /\ page_index = 2 /\ callback = "prev_page" /\ exc = "none"
    /\ Len(slides) = 2

\* C6 (as stated; refuted under Spec).  The Previous button reads "Exit"
\* exactly when the page index is 0 and "Previous" otherwise; the Next
\* button reads "Finish" exactly when the page index is 6 and "Next"
\* otherwise.
C6_ButtonLabels ==
    /\ prev_btn = IF page_index = 0 THEN "Exit" ELSE "Previous"
    /\ next_btn = IF page_index = LastPage THEN "Finish" ELSE "Next"

\* C7.  On every slide the number of calibration points is within 0..3 and
\* is the length of the point list; adding a point to a slide that has three
\* fails, removing one from a slide that has none fails, and the failed
\* call leaves the point list and the count as they were.
C7_CalibrationPointCap ==
    /\ [](\A i \in 1..Len(slides) :
             /\ slides[i].numCalibrationPoints \in 0..3
             /\ slides[i].numCalibrationPoints
                  = Len(slides[i].calibration_points))
    /\ [][(/\ callback' = "commit" /\ annotation_mode = "point"
           /\ slides[sp_curr_slide_var].numCalibrationPoints = 3)
          => exc' = "CapacityExceeded" /\ slides' = slides]_vars
    /\ [][(/\ callback' = "remove" /\ annotation_mode = "point"
           /\ slides[sp_curr_slide_var].numCalibrationPoints = 0)
          => exc' = "EmptyCollection" /\ slides' = slides]_vars

\* a fourth point was refused on a slide that holds three
C7_Witness ==
    /\ callback = "commit" /\ exc = "CapacityExceeded"
    /\ annotation_mode = "point" /\ newPoint # NoPoint
    /\ sp_curr_slide_var \in 1..Len(slides)
    /\ slides[sp_curr_slide_var].numCalibrationPoints = 3

\* the bijections of 1..3
Perms3 == {f \in [1..3 -> 1..3] : \A a, b \in 1..3 : a # b => f[a] # f[b]}

\* the lists with the same three points as `points`, in every order
Reorderings(points) == {[k \in 1..3 |-> points[f[k]]] : f \in Perms3}

C9_StarterValidation ==
    [][(/\ callback' = "next_page" /\ page_index = 0
        /\ \/ atlas_name = ChooseAtlas
           \/ slides_folder_name = ""
           \/ slides_folder_name = "missing")
       => /\ exc' \in {"MissingSelection", "NotFound", "AtlasLoadFailed"}
          /\ page_index' = 0 /\ packed' = packed /\ slides' = slides]_vars

\* an atlas was chosen and loaded, and the folder named was not found
C9_Witness ==
    /\ callback = "next_page" /\ exc = "NotFound" /\ page_index = 0
    /\ atlas_name # ChooseAtlas /\ slides_folder_name = "missing"
    /\ atlas_loaded /\ 0 \in packed

\* C10 (as stated; refuted under SpecExport).  Every export status is
\* not-yet-queued (1), queued (-1) or already-exported (2), and a click
\* changes a status only from not-yet-queued to queued or back.
C10_ThreeStatusValues ==
    /\ [](\A i \in 1..Len(exported) :
             \A j \in 1..Len(exported[i]) :
                exported[i][j] \in {NOT_EXPORTED, -NOT_EXPORTED, EXPORTED})
    /\ [][(callback' = "on_click" /\ page_index = LastPage)
          => \A i \in 1..Len(exported) :
                \A j \in 1..Len(exported[i]) :
                   \/ exported'[i][j] = exported[i][j]
                   \/ /\ exported[i][j] \in {NOT_EXPORTED, -NOT_EXPORTED}
                      /\ exported'[i][j] = -1 * exported[i][j]]_vars

\* C10 (amended).  Every export status is not-yet-queued (1) or
\* already-exported (2) or the negation of one of the two (-1, -2: queued
\* for the next export); a click changes the status of at most one target,
\* a target of the slide shown, and only to its negation.
C10_SignedStatus ==
    /\ [](\A i \in 1..Len(exported) :
             \A j \in 1..Len(exported[i]) :
                exported[i][j] \in {NOT_EXPORTED, -NOT_EXPORTED,
                                    EXPORTED, -EXPORTED})
    /\ [][(callback' = "on_click" /\ page_index = LastPage)
          => /\ Len(exported') = Len(exported)
             /\ \A i \in 1..Len(exported) :
                   /\ Len(exported'[i]) = Len(exported[i])
                   /\ \A j \in 1..Len(exported[i]) :
                         \/ exported'[i][j] = exported[i][j]
                         \/ /\ exported'[i][j] = -1 * exported[i][j]
                            /\ i = ex_curr_slide_var
                            /\ \A k \in 1..Len(exported[i]) :
                                  k # j => exported'[i][k] = exported[i][k]
            ]_vars

\* a click queued a target that had been exported before
C10_Witness ==
    /\ callback = "on_click" /\ exc = "none" /\ page_index = LastPage
    /\ \E i \in 1..Len(exported) :
          \E j \in 1..Len(exported[i]) : exported[i][j] = -EXPORTED

\* C11 (as stated; refuted under SpecExport).  The toggle button changes
\* only the targets of the current slide that are not yet exported: when
\* no target of the slide is queued they all become queued, otherwise the
\* queued ones become not-yet-queued; an already exported target keeps its
\* status, and so does every target of another slide.
C11_ToggleSparesExported ==
    [][ (callback' = "toggle_select" /\ exc' = "none") =>
          LET idx == ex_curr_slide_var
              row == exported[idx]
              none_queued == \A j \in 1..Len(row) : row[j] > 0
          IN  /\ \A j \in 1..Len(row) :
                   /\ row[j] = EXPORTED => exported'[idx][j] = EXPORTED
                   /\ row[j] = NOT_EXPORTED =>
                        exported'[idx][j] = IF none_queued THEN -NOT_EXPORTED
                                            ELSE NOT_EXPORTED
                   /\ row[j] = -NOT_EXPORTED =>
                        exported'[idx][j] = NOT_EXPORTED
              /\ \A i \in 1..Len(exported) :
                   i # idx => exported'[i] = exported[i] ]_vars

\* C11 (amended).  The toggle button changes the sign of statuses of the
\* current slide only: when no target of the slide is queued every status
\* changes sign, so an exported target (2) is queued again (-2) like a new
\* one (1 to -1); otherwise every queued status changes sign (-1 to 1, -2
\* to 2) and the others stay.  The statuses of the other slides stay.
C11_ToggleNegates ==
    [][ (callback' = "toggle_select" /\ exc' = "none") =>
          LET idx == ex_curr_slide_var
              row == exported[idx]
              none_queued == \A j \in 1..Len(row) : row[j] > 0
          IN  /\ Len(exported'[idx]) = Len(row)
              /\ \A j \in 1..Len(row) :
                   exported'[idx][j] =
                      IF none_queued \/ row[j] < 0 THEN 0 - row[j]
                      ELSE row[j]
              /\ \A i \in 1..Len(exported) :
                   i # idx => exported'[i] = exported[i] ]_vars

\* the toggle button has queued an exported target again, on a project of
\* two slides
C11_Witness ==
    /\ callback = "toggle_select" /\ exc = "none" /\ Len(exported) = 2
    /\ \E j \in 1..Len(exported[ex_curr_slide_var]) :
          exported[ex_curr_slide_var][j] = -EXPORTED

\* C12.  While the Exporter page is shown, the Export button is enabled
\* exactly when some target of the displayed slide is queued (its status is
\* negative), and the toggle button reads "Deselect All" exactly then and
\* "Select All" otherwise.
C12_ExportButtonTracksQueue ==
    (Visible(LastPage) /\ ex_curr_slide_var \in 1..Len(exported)) =>
       LET row == exported[ex_curr_slide_var]
           queued == \E j \in 1..Len(row) : row[j] < 0
       IN  /\ export_btn = (IF queued THEN "active" ELSE "disabled")
           /\ toggle_all_btn = (IF queued THEN "Deselect All"
                                ELSE "Select All")

\* the operator has switched to a slide on which only an exported target is
\* queued : the Export button is enabled
C12_Witness ==
    /\ Visible(LastPage) /\ callback = "update" /\ exc = "none"
    /\ export_btn = "active"
    /\ \A j \in 1..Len(exported[ex_curr_slide_var]) :
          exported[ex_curr_slide_var][j] # -NOT_EXPORTED

\* C13.  An export that completes leaves every target of the exported slide
\* that was queued in the already-exported state, and every other target,
\* of this slide or another, with the status it had.
C13_ExportMarksQueued ==
    [][ (callback' = "export" /\ exc' = "none") =>
          /\ Len(exported') = Len(exported)
          /\ \A i \in 1..Len(exported) :
               /\ Len(exported'[i]) = Len(exported[i])
               /\ \A j \in 1..Len(exported[i]) :
                    exported'[i][j] =
                       IF i = ex_curr_slide_var /\ exported[i][j] < 0
                       THEN EXPORTED ELSE exported[i][j] ]_vars

\* an export has completed on a slide that holds an exported target and one
\* that was not queued, with a queued target left on the other slide
C13_Witness ==
    /\ callback = "export" /\ exc = "none" /\ Len(exported) = 2
    /\ \E j \in 1..Len(exported[ex_curr_slide_var]) :
          exported[ex_curr_slide_var][j] = NOT_EXPORTED
    /\ \E j \in 1..Len(exported[ex_curr_slide_var]) :
          exported[ex_curr_slide_var][j] = EXPORTED
    /\ \E i \in 1..Len(exported) : \E j \in 1..Len(exported[i]) :
          i # ex_curr_slide_var /\ exported[i][j] < 0

\* C14 (as stated; refuted under SpecShapes).  The ShapeCount of an export
\* file is the number of boundary polygons of the queued targets of the
\* exported slide, which is the number of Shape blocks of the file, and the
\* blocks are numbered 1, 2, ... in the order written.
C14_ShapeCountMatchesBlocks ==
    [][ (callback' = "export" /\ exc' = "none") =>
          LET targets == slides[ex_curr_slide_var].targets
              row == exported[ex_curr_slide_var]
              queued == {j \in 1..Len(targets) : row[j] < 0}
              polygons == UNION { { <<j, i>> :
                                      i \in 1..Len(targets[j].region_boundaries) }
                                  : j \in queued }
          IN  /\ output_file'.ShapeCount = Cardinality(polygons)
              /\ Len(output_file'.shapes) = Cardinality(polygons)
              /\ \A n \in 1..Len(output_file'.shapes) :
                    output_file'.shapes[n].number = n ]_vars

\* C15 (as stated; refuted under SpecShapes).  Every Shape block of an
\* export file whose polygon has k distinct vertices carries PointCount
\* k + 1 and k + 1 coordinate pairs, the first pair equal to the last.
C15_ClosedPolygon ==
    \A n \in 1..Len(output_file.shapes) :
       LET block == output_file.shapes[n]
           k == Cardinality({block.points[j] : j \in 1..Len(block.points)})
       IN  /\ block.PointCount = k + 1
           /\ Len(block.points) = k + 1
           /\ block.points[1] = block.points[Len(block.points)]

\* C16 (as stated; refuted under Spec).  Whenever TargetProcessor.done runs
\* after an earlier execution made per-target folders, the run counter it
\* reads is greater than the counter of every folder made before, and so
\* the execution does not fail on a folder that exists.
C16_RunCounterIncreases ==
    [][ (callback' = "next_page" /\ page_index = 2) =>
          /\ \A f \in target_folders : f[3] < stalign_iterations
          /\ exc' # "FileExistsError" ]_vars

\* C17.  While the VisuAlignRunner page is shown, VisuAlignRunner.done
\* returns whichever export files are missing; then every target has a
\* refined segmentation, a target without an export file has the copy of
\* its automatic segmentation, and the automatic segmentations are as they
\* were.
C17_MissingExportFallsBack ==
    (page_index = 4 /\ Visible(4)) =>
       LET all == AllTargets(slides)
           names == {get_filename(all[k][1], all[k][2]) : k \in 1..Len(all)}
       IN  \A flat \in SUBSET names :
              LET r == VisuAlignRunner_done(Enter(St), flat)
              IN  /\ r.exc = "none"
                  /\ \A k \in 1..Len(all) :
                       LET before == slides[all[k][1]].targets[all[k][2]]
                           after == r.slides[all[k][1]].targets[all[k][2]]
                       IN  /\ after.seg_visualign # "None"
                           /\ get_filename(all[k][1], all[k][2]) \notin flat
                                => after.seg_visualign = "stalign copy"
                           /\ after.seg_stalign = before.seg_stalign
                           /\ before.seg_stalign

\* Next on the VisuAlignRunner page has returned with one target refined
\* from its export file and another from the copy
C17_Witness ==
    /\ callback = "next_page" /\ page_index = 5
    /\ \E i \in 1..Len(slides) : \E j \in 1..Len(slides[i].targets) :
          slides[i].targets[j].seg_visualign = "stalign copy"
    /\ \E i \in 1..Len(slides) : \E j \in 1..Len(slides[i].targets) :
          slides[i].targets[j].seg_visualign = "visualign"

\* C18.  While the manifest CLICK_ME.json exists it has one slice entry per
\* target of the project, in traversal order (slide by slide, target by
\* target); with N targets the entry at 0-based place i is anchored at
\* N - i - 1, so the anchors are exactly 0 .. N-1, each once.
C18_ManifestReversesOrder ==
    va_manifest =>
       LET all == AllTargets(slides)
           N == Len(all)
       IN  /\ Len(click_me) = N
           /\ \A k \in 1..N :
                /\ click_me[k].filename = get_filename(all[k][1], all[k][2])
                /\ click_me[k].anchoring = N - (k - 1) - 1
           /\ {click_me[k].anchoring : k \in 1..N} = 0..(N - 1)
           /\ \A k, m \in 1..N :
                click_me[k].anchoring = click_me[m].anchoring => k = m

\* the operator has come back from the RegionPicker page and the manifest
\* of a project of two slides with two targets each has been written anew
C18_Witness ==
    /\ callback = "prev_page" /\ exc = "none" /\ page_index = 4
    /\ va_manifest /\ Visible(4) /\ Len(click_me) = 4
    /\ click_me[1].anchoring = 3 /\ click_me[4].anchoring = 0
    /\ click_me[2].filename = get_filename(1, 2)

\* C19.  On the TargetProcessor page the two landmark lists of every target
\* have the length of its landmark count; the Add button is enabled exactly
\* when the target pane and the atlas pane both hold a pending point; a
\* commit appends the pending pair to the two lists of the selected target
\* and leaves no pending point; a remove deletes the last pair of the
\* selected target and nothing else.
C19_LandmarkPairs ==
    /\ [](\A i \in 1..Len(slides) : \A j \in 1..Len(slides[i].targets) :
            LET t == slides[i].targets[j]
            IN  /\ Len(t.landmarks.target) = t.num_landmarks
                /\ Len(t.landmarks.atlas) = t.num_landmarks)
    /\ []((Visible(2) /\ tp_curr_slide_var \in 1..Len(slides)) =>
            (tp_commit_btn = "active"
               <=> (Len(new_points[1]) = 2 /\ Len(new_points[2]) = 2)))
    /\ [][ (Visible(2) /\ exc' = "none" /\ callback' \in {"commit", "remove"})
            =>
            LET si == tp_curr_slide_var
                ti == tp_curr_target_var
                old == slides[si].targets[ti]
                new == slides'[si].targets[ti]
                n == old.num_landmarks
            IN  /\ slides' = [slides EXCEPT ![si].targets[ti] = new]
                /\ new = [old EXCEPT !.landmarks = new.landmarks,
                                     !.num_landmarks = new.num_landmarks]
                /\ new_points' = NoNewPoints
                /\ callback' = "commit" =>
                     /\ new.landmarks.target
                          = Append(old.landmarks.target, new_points[1])
                     /\ new.landmarks.atlas
                          = Append(old.landmarks.atlas, new_points[2])
                     /\ new.num_landmarks = n + 1
                /\ callback' = "remove" =>
                     /\ n > 0
                     /\ new.landmarks.target
                          = SubSeq(old.landmarks.target, 1, n - 1)
                     /\ new.landmarks.atlas
                          = SubSeq(old.landmarks.atlas, 1, n - 1)
                     /\ new.num_landmarks = n - 1 ]_vars

\* the operator has removed the second of two different pairs from the
\* second target while the first target keeps a pair
C19_Witness ==
    /\ Visible(2) /\ callback = "remove" /\ exc = "none"
    /\ tp_curr_slide_var = 1 /\ tp_curr_target_var = 2
    /\ slides[1].targets[2].num_landmarks = 1
    /\ slides[1].targets[2].landmarks.target = << <<2, 1>> >>
    /\ slides[1].targets[2].landmarks.atlas = << <<0, 0>> >>
    /\ slides[1].targets[1].num_landmarks = 1

\* C20 (as stated; refuted under SpecTarget).  Target.remove_landmarks
\* called on a target without a landmark pair fails with the
\* EmptyCollection error and leaves the two landmark lists and the count as
\* they were.
C20_RemoveFromEmptyFails ==
    [][ (callback' = "remove_landmarks"
           /\ slides[1].targets[1].num_landmarks = 0) =>
          /\ exc' = "EmptyCollection"
          /\ slides' = slides ]_vars


C22_PositiveCrop ==
    /\ [][(callback' = "on_select" /\ exc' = "none" /\ newTarget'.set)
          => (newTarget'.w > 0 /\ newTarget'.h > 0)]_vars
    /\ [](newTarget.set => (newTarget.w > 0 /\ newTarget.h > 0))
    /\ [](\A i \in 1..Len(slides) :
            \A j \in 1..Len(slides[i].targets) :
               slides[i].targets[j].w > 0 /\ slides[i].targets[j].h > 0)


\* C23.  From page 1 on the project holds exactly one Slide per image file
\* that Starter found in the sample folder, also after SlideProcessor.cancel
\* and a second Starter.done, and after a Starter.done that failed and was
\* repeated.
C23_OneSlidePerImage ==
    page_index >= 1 => Len(slides) = image_files

\* C24.  At most one page is shown, and a shown page is the page at the
\* current page index; a press of Next or Previous that changes the page
\* index leaves the page it came from hidden.
C24_OnePageActive ==
    /\ [](Cardinality(packed) <= 1 /\ packed \subseteq {page_index})
    /\ [][(callback' \in {"next_page", "prev_page"}
           /\ page_index' # page_index) => page_index \notin packed']_vars

\* Next has taken the operator from the SlideProcessor page to the
\* TargetProcessor page, which alone is shown
C24_Witness ==
    /\ callback = "next_page" /\ exc = "none" /\ page_index = 2
    /\ packed = {2} /\ ~destroyed

\* C25.  While STalignRunner.run is in progress no press of Next or
\* Previous takes effect: no done() or cancel() runs and the page index
\* stays as it is.
C25_RunUninterrupted ==
    [][run_active =>
         (page_index' = page_index
          /\ callback' \notin {"next_page", "prev_page"})]_vars

C27_CentredCoordinates ==
    /\ [][(callback' = "set_pix_loc" /\ exc' = "none")
          => /\ image'.has_pix_loc
             /\ DOMAIN image'.pix_loc = DOMAIN image'.shape
             /\ \A k \in DOMAIN image'.pix_loc :
                  LET n == image'.shape[k]
                      d == image'.pix_dim[k]
                      loc == image'.pix_loc[k]
                  IN  /\ Len(loc) = n
                      /\ \A i \in 1..(n - 1) : loc[i + 1] - loc[i] = 2 * d
                      /\ n > 0 => (loc[1] = -((n - 1) * d)
                                   /\ loc[n] = (n - 1) * d)]_vars
    /\ [][(callback' = "set_pix_loc" /\ exc' = "none"
           /\ image'.shape = <<5>> /\ image'.pix_dim = <<2>>)
          => image'.pix_loc = << <<-8, -4, 0, 4, 8>> >>]_vars
    /\ [][(callback' = "set_pix_loc" /\ ~image.has_pix_dim)
          => (exc' # "none" /\ image' = image)]_vars
    /\ [][callback' = "set_pix_dim"
          => \/ /\ exc' = "none" /\ image'.has_pix_dim
                /\ Len(image'.pix_dim) = Len(image.shape)
             \/ exc' # "none" /\ image' = image]_vars

\* an image of one axis of five pixels with spacing 2 has its coordinates
C27_Witness ==
    /\ callback = "set_pix_loc" /\ exc = "none"
    /\ image.shape = <<5>> /\ image.pix_dim = <<2>>
    /\ image.has_pix_loc /\ image.pix_loc[1][1] = -8

\* C28.  The downscaled atlases are the full-size ones reduced, per axis
\* of spacing s, by the factor max(1, floor(50/s)): spacing 25, 10, 10
\* gives the factors 2, 5, 5.
C28_DownscaleFactor ==
    atlases.DSR.loaded =>
      /\ \A k \in 1..3 :
           LET spacing == atlases.FSR.pix_dim[k]
               floor == 50 \div spacing
               factor == IF floor > 1 THEN floor ELSE 1
           IN  /\ atlases.DSR.pix_dim[k] = factor * spacing
               /\ atlases.DSL.pix_dim[k] = factor * spacing
               /\ (atlases.DSR.shape[k] - 1) * factor < atlases.FSR.shape[k]
               /\ atlases.FSR.shape[k] <= atlases.DSR.shape[k] * factor
               /\ atlases.DSL.shape[k] = atlases.DSR.shape[k]
      /\ atlases.FSR.pix_dim = <<25, 10, 10>>
           => atlases.DSR.pix_dim = <<2 * 25, 5 * 10, 5 * 10>>

\* an atlas of spacing 25, 10, 10 has been loaded and downscaled to 50
\* microns on every axis
C28_Witness ==
    /\ callback = "load_atlas_info" /\ atlases.DSR.loaded
    /\ atlases.FSR.pix_dim = <<25, 10, 10>>
    /\ atlases.DSR.pix_dim = <<50, 50, 50>>
    /\ atlases.FSR.shape = <<1, 1, 2>> /\ atlases.DSR.shape = <<1, 1, 1>>

C30_LabelIdsExact ==
    atlases.DSL.loaded =>
      /\ \A c \in DOMAIN atlases.FSL.img.data :
            atlases.FSL.img.data[c].den = 1
      /\ \A ix \in DOMAIN atlases.DSL.img.data :
            \E c \in DOMAIN atlases.FSL.img.data :
               atlases.DSL.img.data[ix].num * atlases.FSL.img.data[c].den
                 = atlases.FSL.img.data[c].num * atlases.DSL.img.data[ix].den

\* C36 (as stated; refuted under SpecImages).  On every axis the spacing of
\* the downscaled reference atlas, the downscale factor times the full-size
\* spacing, is at least 50.
C36_DownscaledSpacingAtLeast50 ==
    atlases.DSR.loaded =>
      \A k \in DOMAIN atlases.DSR.pix_dim : atlases.DSR.pix_dim[k] >= 50

\* C37 (as stated; refuted under SpecCal).  While the SlideProcessor page
\* is shown, its Remove button is enabled exactly when the displayed slide
\* has a committed item of the active mode (a target in rectangle mode, a
\* calibration point in point mode), also right after a removal.
C37_RemoveButtonTracksItems ==
    (Visible(1) /\ sp_curr_slide_var \in 1..Len(slides)) =>
      (sp_remove_btn = "active" <=>
         IF annotation_mode = "rect"
         THEN slides[sp_curr_slide_var].numTargets > 0
         ELSE slides[sp_curr_slide_var].numCalibrationPoints > 0)

\* C38 (as stated; refuted under Spec).  Whenever the SlideProcessor page
\* is activated or refreshed its selected slide is one of the slides, and
\* whenever the TargetProcessor page is activated or updated its selected
\* slide is one of the slides and its selected target one of the targets
\* of that slide.
C38_SelectionInRange ==
    [][ /\ ( /\ callback' \in {"next_page", "prev_page", "refresh"}
             /\ page_index' = 1 /\ (page_index # 1 \/ callback' = "refresh") )
           => sp_curr_slide_var' \in 1..Len(slides')
        /\ ( /\ callback' \in {"next_page", "prev_page", "update",
                               "switch_slides"}
             /\ page_index' = 2
             /\ (page_index # 2 \/ callback' \in {"update", "switch_slides"}) )
           => /\ tp_curr_slide_var' \in 1..Len(slides')
              /\ tp_curr_target_var'
                   \in 1..Len(slides'[tp_curr_slide_var'].targets) ]_vars

\* C39 (as stated; refuted under SpecExport).  An export that follows an
\* export of the same slide writes a file with a larger batch number than
\* the file written before, also when the Exporter page was left and
\* entered again in between.
C39_BatchNumbersIncrease ==
    [][ ( /\ callback' = "export" /\ exc' = "none"
          /\ output_file # NoFile
          /\ output_file'.slide = output_file.slide )
        => output_file'.number > output_file.number ]_vars

\* C32 (as stated; refuted under SpecExport).  Every activation of the
\* RegionPicker page, the first as well as a later one reached by Previous
\* from the Exporter, returns without an exception, with the region tree
\* built and the page shown.
C32_RegionTreeRebuilt ==
    [][ ( /\ callback' \in {"next_page", "prev_page"}
          /\ page_index' = 5 /\ page_index # 5 )
        => (exc' = "none" /\ region_tree_built' /\ 5 \in packed') ]_vars

\* C40 (as stated; refuted under Spec).  In every state in which the page
\* index is that of VisuAlignRunner (4) or later, every target of every
\* slide has a transform and an automatic segmentation.
C40_AllTargetsRegistered ==
    page_index >= 4 =>
      \A i \in 1..Len(slides) : \A j \in 1..Len(slides[i].targets) :
         slides[i].targets[j].transform /\ slides[i].targets[j].seg_stalign

C31_InheritAveragePose ==
    [][ (callback' = "update" /\ exc' = "none" /\ Visible(2))
        => LET old == slides[tp_curr_slide_var'].targets
               j == tp_curr_target_var'
               new == slides'[tp_curr_slide_var'].targets[j]
               Posed(t) == t.thetas # <<0, 0, 0>> \/ t.T_estim # <<0, 0, 0>>
               sib == {k \in (1..Len(old)) \ {j} : Posed(old[k])}
               n == Cardinality(sib)
               sum[k \in 0..Len(old)] ==
                   IF k = 0 THEN [thetas |-> <<0, 0, 0>>,
                                  T_estim |-> <<0, 0, 0>>]
                   ELSE IF k \in sib
                   THEN [thetas |-> [a \in 1..3 |-> sum[k - 1].thetas[a]
                                                + old[k].thetas[a]],
                         T_estim |-> [a \in 1..3 |-> sum[k - 1].T_estim[a]
                                                 + old[k].T_estim[a]]]
                   ELSE sum[k - 1]
               total == sum[Len(old)]
           IN  ~Posed(old[j]) =>
                 IF n = 0 THEN ~Posed(new)
                 ELSE \A a \in 1..3 :
                        /\ n * new.thetas[a] - total.thetas[a]
                             \in (1 - n)..(n - 1)
                        /\ n * new.T_estim[a] - total.T_estim[a]
                             \in (1 - n)..(n - 1) ]_vars

C35_SetParamOwnCopy ==
    [][ ( /\ callback' \in {"set_param()", "set_param(key, val)",
                            "set_param(no key of the parameters, val)",
                            "save_params"}
          /\ Visible(2) )
        => LET i == tp_curr_slide_var
               j == tp_curr_target_var
               old == slides[i].targets[j]
               new == slides'[i].targets[j]
           IN  /\ DEFAULT_STALIGN_PARAMS' = DEFAULT_STALIGN_PARAMS
               /\ slides' = [slides EXCEPT ![i].targets[j].stalign_params =
                               new.stalign_params]
               /\ callback' = "set_param()"
                    => new.stalign_params = DEFAULT_STALIGN_PARAMS
               /\ callback' = "set_param(key, val)"
                    => new.stalign_params =
                         [old.stalign_params EXCEPT !.iterations = 20]
               /\ callback' = "set_param(no key of the parameters, val)"
                    => new.stalign_params = old.stalign_params ]_vars

\* set_param(key, val) has changed the iterations of the displayed target,
\* which differ from the defaults and from those of the other target
C35_Witness ==
    /\ callback = "set_param(key, val)" /\ Visible(2)
    /\ tp_currTarget(St).stalign_params.iterations = 20
    /\ DEFAULT_STALIGN_PARAMS.iterations = 200
    /\ \E k \in 1..Len(slides[1].targets) :
         /\ k # tp_curr_target_var
         /\ slides[1].targets[k].stalign_params = DEFAULT_STALIGN_PARAMS
         /\ slides[1].targets[k].thetas # <<0, 0, 0>>

=============================================================================
